---- MODULE Spec2Model ----
(***************************************************************************)
(* Turn-based battle engine of the RPG server: turn-order scheduler,       *)
(* command validator, command executor and battle lifecycle manager        *)
(* (battleManager.js, abilities.js, constants.js and the battle handlers   *)
(* of server.js).                                                          *)
(*                                                                         *)
(* JavaScript values are modelled as follows.                              *)
(*  - A number is an integer.  A value for which `typeof v === "number"`   *)
(*    is false (a missing field of a plain object) is the value Undefined. *)
(*  - A string id that is null / not a string is the value Null.           *)
(*  - An absent element / status effect / name is the empty string.        *)
(*  - A multiplier is kept in hundredths (1.25 is 125), `x * 0.6` and      *)
(*    `x * 1.1` are kept in tenths, so Math.floor is an integer division.  *)
(*    Over the stat values the model draws, IEEE doubles give the same     *)
(*    floors as the exact arithmetic.                                      *)
(***************************************************************************)
EXTENDS Integers, Sequences, FiniteSets, TLC

VARIABLES
    party,            \* the Party object the caller owns and hands to createBattle
    templates,        \* the enemy list the caller hands to createBattle
    battlesById,      \* the battle store: battle id -> Battle
    partyByBattleId,  \* the side table: battle id -> the party (by reference)
    last,             \* the call that has just returned: operation, arguments, result
    player,           \* the player of the connection: save, active battle
    objects           \* worldState.objects: the enemies of the overworld

vars == <<party, templates, battlesById, partyByBattleId, last, player, objects>>

\* What the engine, called on its own, leaves alone.
serverVars == <<player, objects>>

(***************************************************************************)
(* Bounds of the exploration.                                              *)
(***************************************************************************)
\* A call that can write to the log of the battle is made while the log has
\* fewer than MaxLog lines; createBattle leaves two.
MaxLog == 3

(***************************************************************************)
(* Value encodings.                                                        *)
(***************************************************************************)
Undefined == -1000
Null == "<null>"

IsNumber(v) == v # Undefined
IsString(v) == v # Null

Max(a, b) == IF a >= b THEN a ELSE b
Min(a, b) == IF a <= b THEN a ELSE b

(***************************************************************************)
(* constants.js                                                            *)
(***************************************************************************)
ELEMENTS == {"LIGHT", "SHADOW", "FIRE", "WATER", "EARTH", "WIND", "NULL"}

ELEMENTAL_WEAKNESS ==
    [e \in ELEMENTS |->
        CASE e = "FIRE"   -> "WATER"
          [] e = "WATER"  -> "EARTH"
          [] e = "EARTH"  -> "WIND"
          [] e = "WIND"   -> "FIRE"
          [] e = "LIGHT"  -> "SHADOW"
          [] e = "SHADOW" -> "LIGHT"
          [] e = "NULL"   -> "NULL"]

(***************************************************************************)
(* abilities.js                                                            *)
(***************************************************************************)
Ability(id, name, element, mpCost, targetType, power, statusEffect) ==
    [id |-> id, name |-> name, element |-> element, mpCost |-> mpCost,
     targetType |-> targetType, power |-> power, statusEffect |-> statusEffect]

ABILITIES ==
    << Ability("basic_attack", "Attack", "NULL", 0, "enemy_single", 4, ""),
       Ability("defend", "Defend", "NULL", 0, "self", 0, ""),
       Ability("flee", "Flee", "NULL", 0, "self", 0, ""),
       Ability("crystalborne_strike", "Strike", "NULL", 0, "enemy_single", 8, ""),
       Ability("crystalborne_lumen_arc", "Lumen Arc", "LIGHT", 4, "enemy_single", 11, ""),
       Ability("sage_mend", "Mend", "LIGHT", 5, "ally_single", 12, ""),
       Ability("sage_barrier", "Barrier", "LIGHT", 6, "ally_single", 0, ""),
       Ability("sage_scan", "Scan", "NULL", 2, "enemy_single", 0, ""),
       Ability("knight_taunt", "Taunt", "NULL", 3, "enemy_all", 0, ""),
       Ability("knight_heavy_strike", "Heavy Strike", "NULL", 2, "enemy_single", 14, ""),
       Ability("aeromancer_gale_sweep", "Gale Sweep", "WIND", 6, "enemy_all", 9, ""),
       Ability("aeromancer_chain_spark", "Chain Spark", "WIND", 5, "enemy_single", 13, ""),
       Ability("aeromancer_haste", "Haste", "WIND", 4, "ally_single", 0, ""),
       Ability("umbramancer_venom_hex", "Venom Hex", "SHADOW", 4, "enemy_single", 6, "POISON"),
       Ability("umbramancer_sunder_ward", "Sunder Ward", "SHADOW", 5, "enemy_single", 8, "WEAKEN"),
       Ability("crystal_knight_crystal_blade", "Crystal Blade", "LIGHT", 3, "enemy_single", 12, ""),
       Ability("crystal_knight_prismatic_aegis", "Prismatic Aegis", "LIGHT", 7, "party", 0, "") >>

AbilityIds == {ABILITIES[i].id : i \in DOMAIN ABILITIES}

ABILITIES_BY_ID ==
    [id \in AbilityIds |-> ABILITIES[CHOOSE i \in DOMAIN ABILITIES : ABILITIES[i].id = id]]

(***************************************************************************)
(* Units.  A party member (Character) and an enemy share one shape; an     *)
(* enemy has no crystalResonance and a member has no explicit element.     *)
(* crystalResonance is the list of its entries in iteration order.         *)
(***************************************************************************)
Stats(hp, maxHp, mp, maxMp, strength, defense, magic, speed, spirit) ==
    [hp |-> hp, maxHp |-> maxHp, mp |-> mp, maxMp |-> maxMp, strength |-> strength,
     defense |-> defense, magic |-> magic, speed |-> speed, spirit |-> spirit]

Unit(id, name, element, crystalResonance, stats) ==
    [id |-> id, name |-> name, element |-> element,
     crystalResonance |-> crystalResonance, stats |-> stats, statusEffects |-> <<>>]

getUnitSpeed(unit) ==
    IF IsNumber(unit.stats.speed) THEN unit.stats.speed ELSE 0

getUnitName(unit) ==
    IF unit.name # "" THEN unit.name
    ELSE IF IsString(unit.id) THEN unit.id ELSE "Unknown"

\* The keys of crystalResonance that name an element once upper-cased; the
\* model writes them upper-cased, and "FOREST" is the one that names none.
RECURSIVE bestResonance(_, _, _, _)
bestResonance(cr, i, bestElement, bestValue) ==
    IF i > Len(cr) THEN bestElement
    ELSE IF cr[i][1] \in ELEMENTS /\ (bestElement = "" \/ cr[i][2] > bestValue)
         THEN bestResonance(cr, i + 1, cr[i][1], cr[i][2])
         ELSE bestResonance(cr, i + 1, bestElement, bestValue)

getUnitElement(unit) ==
    IF unit.element # "" THEN unit.element
    ELSE bestResonance(unit.crystalResonance, 1, "", 0)

\* elementalMultiplier with the two directions of ELEMENTAL_WEAKNESS swapped.
elementalMultiplier_swapped(abilityElement, targetElement) ==
    IF abilityElement = "" \/ abilityElement = "NULL" THEN 100
    ELSE IF targetElement = "" \/ targetElement = "NULL" THEN 100
    ELSE IF ELEMENTAL_WEAKNESS[abilityElement] = targetElement THEN 125
    ELSE IF ELEMENTAL_WEAKNESS[targetElement] = abilityElement THEN 75
    ELSE IF abilityElement = targetElement THEN 90
    ELSE 100

\* elementalMultiplier without the reduction for an ability whose element is
\* weak to that of the target.
elementalMultiplier_noPenalty(abilityElement, targetElement) ==
    IF abilityElement = "" \/ abilityElement = "NULL" THEN 100
    ELSE IF targetElement = "" \/ targetElement = "NULL" THEN 100
    ELSE IF ELEMENTAL_WEAKNESS[targetElement] = abilityElement THEN 125
    ELSE IF abilityElement = targetElement THEN 90
    ELSE 100

\* Multiplier in hundredths.
elementalMultiplier(abilityElement, targetElement) ==
    IF abilityElement = "" \/ abilityElement = "NULL" THEN 100
    ELSE IF targetElement = "" \/ targetElement = "NULL" THEN 100
    ELSE IF ELEMENTAL_WEAKNESS[targetElement] = abilityElement THEN 125
    ELSE IF ELEMENTAL_WEAKNESS[abilityElement] = targetElement THEN 75
    ELSE IF abilityElement = targetElement THEN 90
    ELSE 100

\* clampHp that holds hp to at least 0 only.
clampHp_floorOnly(stats) ==
    IF IsNumber(stats.maxHp) /\ IsNumber(stats.hp)
    THEN [stats EXCEPT !.hp = Max(0, stats.hp)]
    ELSE stats

clampHp(stats) ==
    IF IsNumber(stats.maxHp) /\ IsNumber(stats.hp)
    THEN [stats EXCEPT !.hp = Max(0, Min(stats.maxHp, stats.hp))]
    ELSE stats

getUnitHp(unit) ==
    IF IsNumber(unit.stats.hp) THEN unit.stats.hp ELSE 0

isAlive(unit) == getUnitHp(unit) > 0

(***************************************************************************)
(* Turn-order scheduler.                                                   *)
(***************************************************************************)
TurnRef(kind, id) == [kind |-> kind, id |-> id]

\* String.prototype.localeCompare on the tie keys "p_<id>" / "e_<id>": the
\* position of a key in the collation order.  "e_" sorts before "p_"; the
\* rest of the key is the id, ranked by LocaleOrder.
LocaleOrder == <<"c1", "c2", "c3", "e_fast", "e_mid", "e1", "e2", "e3", "p_fast", "p_slow", "x1">>

IdRank(id) == CHOOSE i \in DOMAIN LocaleOrder : LocaleOrder[i] = id

tieKey(kind, id) == <<IF kind = "party" THEN 2 ELSE 1, IdRank(id)>>

localeCompare(a, b) ==
    IF a[1] # b[1] THEN a[1] - b[1] ELSE a[2] - b[2]

\* The comparator handed to entries.sort: negative when a goes before b.
compareEntries_slowFirst(a, b) ==
    IF b.speed # a.speed THEN a.speed - b.speed
    ELSE localeCompare(a.tie, b.tie)

compareEntries(a, b) ==
    IF b.speed # a.speed THEN b.speed - a.speed
    ELSE localeCompare(a.tie, b.tie)

\* Array.prototype.sort is stable: an entry goes after every entry that does
\* not compare greater than it.
RECURSIVE insertSorted(_, _)
insertSorted(sorted, e) ==
    IF sorted = <<>> THEN <<e>>
    ELSE IF compareEntries(e, Head(sorted)) < 0 THEN <<e>> \o sorted
    ELSE <<Head(sorted)>> \o insertSorted(Tail(sorted), e)

RECURSIVE sortEntries(_, _)
sortEntries(entries, sorted) ==
    IF entries = <<>> THEN sorted
    ELSE sortEntries(Tail(entries), insertSorted(sorted, Head(entries)))

entryOf(kind, u) ==
    [ref |-> TurnRef(kind, u.id), speed |-> getUnitSpeed(u), tie |-> tieKey(kind, u.id)]

calculateInitialTurnOrder(members, foeList) ==
    LET schedulable(list) == SelectSeq(list, LAMBDA u : IsString(u.id) /\ isAlive(u))
        ms == schedulable(members)
        es == schedulable(foeList)
        entries == [i \in 1..Len(ms) |-> entryOf("party", ms[i])]
                   \o [i \in 1..Len(es) |-> entryOf("enemy", es[i])]
        sorted == sortEntries(entries, <<>>)
    IN  [i \in 1..Len(sorted) |-> sorted[i].ref]

(***************************************************************************)
(* Battle store and unit lookup.  The executor works on a battle and on    *)
(* the party the side table maps the battle's id to; the operators below   *)
(* take and return the pair w = [battle, party].                           *)
(***************************************************************************)
World(b, p) == [battle |-> b, party |-> p]

NotFound == [kind |-> "none", idx |-> 0]

\* Array.prototype.find: the index of the first element with the id, 0 if none.
findIndexById(list, unitId) ==
    IF \E i \in DOMAIN list : list[i].id = unitId
    THEN CHOOSE i \in DOMAIN list :
            /\ list[i].id = unitId
            /\ \A j \in 1..(i - 1) : list[j].id # unitId
    ELSE 0

findUnitInBattle(w, unitId) ==
    IF findIndexById(w.party.members, unitId) # 0
    THEN [kind |-> "party", idx |-> findIndexById(w.party.members, unitId)]
    ELSE IF findIndexById(w.battle.enemies, unitId) # 0
    THEN [kind |-> "enemy", idx |-> findIndexById(w.battle.enemies, unitId)]
    ELSE NotFound

unitOf(w, h) ==
    IF h.kind = "party" THEN w.party.members[h.idx] ELSE w.battle.enemies[h.idx]

\* Assignment through a unit reference: unit.stats = stats.
withStats(w, h, stats) ==
    IF h.kind = "party"
    THEN [w EXCEPT !.party.members[h.idx].stats = stats]
    ELSE [w EXCEPT !.battle.enemies[h.idx].stats = stats]

withStatusEffects(w, h, effects) ==
    IF h.kind = "party"
    THEN [w EXCEPT !.party.members[h.idx].statusEffects = effects]
    ELSE [w EXCEPT !.battle.enemies[h.idx].statusEffects = effects]

\* pushLog that writes the line twice.
pushLog_twice(w, line) == [w EXCEPT !.battle.log = Append(Append(@, line), line)]

pushLog(w, line) == [w EXCEPT !.battle.log = Append(@, line)]

\* battle.turnOrder[battle.activeTurnIndex % battle.turnOrder.length]; the
\* index is NaN and the element undefined when turnOrder is empty.
NoRef == TurnRef("none", Null)

activeRefOf(b) ==
    IF Len(b.turnOrder) = 0 THEN NoRef
    ELSE b.turnOrder[(b.activeTurnIndex % Len(b.turnOrder)) + 1]

getActiveUnit(w) ==
    LET ref == activeRefOf(w.battle)
        list == IF ref.kind = "enemy" THEN w.battle.enemies ELSE w.party.members
    IN  IF ref.kind = "none" \/ findIndexById(list, ref.id) = 0 THEN NotFound
        ELSE [kind |-> ref.kind, idx |-> findIndexById(list, ref.id)]

\* recomputeState with the enemy wipe checked before the party wipe.
recomputeState_victoryFirst(w) ==
    LET partyAlive == \E i \in DOMAIN w.party.members : isAlive(w.party.members[i])
        enemiesAlive == \E i \in DOMAIN w.battle.enemies : isAlive(w.battle.enemies[i])
    IN  IF ~enemiesAlive THEN "victory"
        ELSE IF ~partyAlive THEN "defeat"
        ELSE "in_progress"

recomputeState(w) ==
    LET partyAlive == \E i \in DOMAIN w.party.members : isAlive(w.party.members[i])
        enemiesAlive == \E i \in DOMAIN w.battle.enemies : isAlive(w.battle.enemies[i])
    IN  IF ~partyAlive THEN "defeat"
        ELSE IF ~enemiesAlive THEN "victory"
        ELSE "in_progress"

\* pruneDeadFromTurnOrder that looks at the references to party members only.
pruneDeadFromTurnOrder_partyOnly(w) ==
    LET alivePartyIds == {w.party.members[i].id : i \in {j \in DOMAIN w.party.members : isAlive(w.party.members[j])}}
        keep(ref) == ref.kind = "party" => ref.id \in alivePartyIds
        pruned == SelectSeq(w.battle.turnOrder, keep)
    IN  [w EXCEPT !.battle.turnOrder = pruned,
                  !.battle.activeTurnIndex =
                      IF Len(pruned) = 0 THEN 0 ELSE w.battle.activeTurnIndex % Len(pruned)]

pruneDeadFromTurnOrder(w) ==
    LET alivePartyIds == {w.party.members[i].id : i \in {j \in DOMAIN w.party.members : isAlive(w.party.members[j])}}
        aliveEnemyIds == {w.battle.enemies[i].id : i \in {j \in DOMAIN w.battle.enemies : isAlive(w.battle.enemies[j])}}
        keep(ref) == IF ref.kind = "party" THEN ref.id \in alivePartyIds
                     ELSE IF ref.kind = "enemy" THEN ref.id \in aliveEnemyIds
                     ELSE FALSE
        pruned == SelectSeq(w.battle.turnOrder, keep)
    IN  [w EXCEPT !.battle.turnOrder = pruned,
                  !.battle.activeTurnIndex =
                      IF Len(pruned) = 0 THEN 0 ELSE w.battle.activeTurnIndex % Len(pruned)]

(***************************************************************************)
(* Command executor.                                                       *)
(***************************************************************************)
Command(sourceId, targetId, abilityId) ==
    [type |-> "ability", sourceId |-> sourceId, targetId |-> targetId, abilityId |-> abilityId]

\* ABILITIES_BY_ID[abilityId] for a string abilityId, null otherwise.
knownAbility(abilityId) == IsString(abilityId) /\ abilityId \in DOMAIN ABILITIES_BY_ID

isHealingTarget(ability) == ability.targetType \in {"ally_single", "party", "self"}

numberOr0(v) == IF IsNumber(v) THEN v ELSE 0

\* healAmount with the magic of the source taken once, not 1.1 times.
healAmount_plainMagic(ability, source, target) ==
    LET sourceMag == numberOr0(source.stats.magic)
        mult == elementalMultiplier(ability.element, getUnitElement(target))
    IN  Max(1, ((10 * ability.power + 10 * sourceMag) * mult) \div 1000)

\* Math.max(1, Math.floor((ability.power + sourceMag * 1.1) * mult)), in
\* integers: 1.1 is 11 tenths and mult is in hundredths.
healAmount(ability, source, target) ==
    LET sourceMag == numberOr0(source.stats.magic)
        mult == elementalMultiplier(ability.element, getUnitElement(target))
    IN  Max(1, ((10 * ability.power + 11 * sourceMag) * mult) \div 1000)

\* damageAmount with the whole of the defending stat taken off.
damageAmount_fullMitigation(ability, source, target) ==
    LET physical == ability.element = "NULL"
        offense == (IF physical THEN numberOr0(source.stats.strength)
                    ELSE numberOr0(source.stats.magic)) + ability.power
        mitigation10 == 10 * (IF physical THEN numberOr0(target.stats.defense)
                              ELSE numberOr0(target.stats.spirit))
        mult == elementalMultiplier(ability.element, getUnitElement(target))
    IN  Max(1, ((10 * offense - mitigation10) * mult) \div 1000)

\* Math.max(1, Math.floor((offense - mitigation) * mult)), in integers: the
\* stats are whole numbers, mitigation is 6 tenths of one and mult is in
\* hundredths.  The double arithmetic of the source gives the same number for
\* a defending stat below 14; the stats of the program go up to 8.
damageAmount(ability, source, target) ==
    LET physical == ability.element = "NULL"
        offense == (IF physical THEN numberOr0(source.stats.strength)
                    ELSE numberOr0(source.stats.magic)) + ability.power
        mitigation6 == 6 * (IF physical THEN numberOr0(target.stats.defense)
                            ELSE numberOr0(target.stats.spirit))
        mult == elementalMultiplier(ability.element, getUnitElement(target))
    IN  Max(1, ((10 * offense - mitigation6) * mult) \div 1000)

\* payMp with the cost taken twice.
payMp_twice(w, ability, sh) ==
    IF ability.mpCost > 0
    THEN withStats(w, sh, [unitOf(w, sh).stats EXCEPT !.mp = Max(0, @ - 2 * ability.mpCost)])
    ELSE w

\* The MP-cost block, the effect block and the status block of executeCommand,
\* applied in the order of the source to the units the handles name.
payMp(w, ability, sh) ==
    IF ability.mpCost > 0
    THEN withStats(w, sh, [unitOf(w, sh).stats EXCEPT !.mp = Max(0, @ - ability.mpCost)])
    ELSE w

effectAmount(w, ability, sh, th) ==
    IF ability.power > 0 /\ isHealingTarget(ability) THEN healAmount(ability, unitOf(w, sh), unitOf(w, th))
    ELSE IF ability.power > 0 THEN damageAmount(ability, unitOf(w, sh), unitOf(w, th))
    ELSE 0

applyEffect(w, ability, th, amount) ==
    LET stats == unitOf(w, th).stats
    IN  IF ability.power > 0 /\ isHealingTarget(ability)
        THEN IF IsNumber(stats.hp)
             THEN withStats(w, th, clampHp([stats EXCEPT !.hp = stats.hp + amount]))
             ELSE w
        ELSE IF ability.power > 0
        THEN IF IsNumber(stats.hp)
             THEN withStats(w, th, clampHp([stats EXCEPT !.hp = Max(0, stats.hp - amount)]))
             ELSE w
        ELSE w

seqIncludes(seq, x) == \E i \in DOMAIN seq : seq[i] = x

\* applyStatus without the look for the tag in the array.
applyStatus_always(w, ability, th) ==
    IF ability.statusEffect # ""
    THEN withStatusEffects(w, th, Append(unitOf(w, th).statusEffects, ability.statusEffect))
    ELSE w

applyStatus(w, ability, th) ==
    IF ability.statusEffect # "" /\ ~seqIncludes(unitOf(w, th).statusEffects, ability.statusEffect)
    THEN withStatusEffects(w, th, Append(unitOf(w, th).statusEffects, ability.statusEffect))
    ELSE w

\* actionLine with the verb "used" for every ability.
actionLine_usedOnly(ability, sourceName, targetName, amount) ==
    LET delta == IF amount > 0
                 THEN (IF isHealingTarget(ability) THEN " +" ELSE " -") \o ToString(amount) \o " HP"
                 ELSE ""
        statusPart == IF ability.statusEffect # "" THEN " (" \o ability.statusEffect \o ")" ELSE ""
    IN  sourceName \o " used " \o ability.name \o " on " \o targetName
            \o delta \o statusPart \o "."

actionLine(ability, sourceName, targetName, amount) ==
    LET verb == IF ability.power > 0 /\ isHealingTarget(ability) THEN "cast" ELSE "used"
        delta == IF amount > 0
                 THEN (IF isHealingTarget(ability) THEN " +" ELSE " -") \o ToString(amount) \o " HP"
                 ELSE ""
        statusPart == IF ability.statusEffect # "" THEN " (" \o ability.statusEffect \o ")" ELSE ""
    IN  sourceName \o " " \o verb \o " " \o ability.name \o " on " \o targetName
            \o delta \o statusPart \o "."

\* "Cleanup and win/loss checks" at the end of executeCommand.
settle(w) ==
    LET pruned == pruneDeadFromTurnOrder(w)
        nextState == recomputeState(pruned)
    IN  IF nextState # pruned.battle.state
        THEN [pruned EXCEPT !.battle.state = nextState,
                            !.battle.log = IF nextState = "victory" THEN Append(@, "Victory!")
                                           ELSE IF nextState = "defeat" THEN Append(@, "Defeat.")
                                           ELSE @]
        ELSE pruned

resolve(w, ability, sh, th) ==
    LET paid == payMp(w, ability, sh)
        amount == effectAmount(paid, ability, sh, th)
        hit == applyEffect(paid, ability, th, amount)
        tagged == applyStatus(hit, ability, th)
        line == actionLine(ability, getUnitName(unitOf(tagged, sh)), getUnitName(unitOf(tagged, th)), amount)
    IN  settle(pushLog(tagged, line))

\* executeCommand without the return for a battle that has ended.
executeCommand_anyState(w, command) ==
    IF w.battle.state = "pending" THEN w
    ELSE IF ~knownAbility(command.abilityId)
    THEN pushLog(w, "Invalid command: unknown ability.")
    ELSE IF command.abilityId = "flee"
    THEN LET found == findUnitInBattle(w, command.sourceId)
             sourceName == IF found = NotFound THEN "Unknown" ELSE getUnitName(unitOf(w, found))
         IN  [pushLog(w, sourceName \o " fled.") EXCEPT !.battle.state = "defeat"]
    ELSE IF activeRefOf(w.battle) = NoRef \/ activeRefOf(w.battle).id # command.sourceId
    THEN pushLog(w, "Invalid command: not active unit.")
    ELSE LET ability == ABILITIES_BY_ID[command.abilityId]
             sh == findUnitInBattle(w, command.sourceId)
             th == findUnitInBattle(w, command.targetId)
         IN  IF sh = NotFound \/ th = NotFound
             THEN pushLog(w, "Invalid command: missing source/target.")
             ELSE IF ability.mpCost > 0 /\ ~IsNumber(unitOf(w, sh).stats.mp)
             THEN pushLog(w, getUnitName(unitOf(w, sh)) \o " failed to cast " \o ability.name \o ".")
             ELSE IF ability.mpCost > 0 /\ unitOf(w, sh).stats.mp < ability.mpCost
             THEN pushLog(w, getUnitName(unitOf(w, sh)) \o " tried " \o ability.name \o " but lacked MP.")
             ELSE resolve(w, ability, sh, th)

\* executeCommand with flee handled after the check of the active unit.
executeCommand_fleeOnTurn(w, command) ==
    IF w.battle.state # "in_progress" THEN w
    ELSE IF ~knownAbility(command.abilityId)
    THEN pushLog(w, "Invalid command: unknown ability.")
    ELSE IF activeRefOf(w.battle) = NoRef \/ activeRefOf(w.battle).id # command.sourceId
    THEN pushLog(w, "Invalid command: not active unit.")
    ELSE IF command.abilityId = "flee"
    THEN LET found == findUnitInBattle(w, command.sourceId)
             sourceName == IF found = NotFound THEN "Unknown" ELSE getUnitName(unitOf(w, found))
         IN  [pushLog(w, sourceName \o " fled.") EXCEPT !.battle.state = "defeat"]
    ELSE LET ability == ABILITIES_BY_ID[command.abilityId]
             sh == findUnitInBattle(w, command.sourceId)
             th == findUnitInBattle(w, command.targetId)
         IN  IF sh = NotFound \/ th = NotFound
             THEN pushLog(w, "Invalid command: missing source/target.")
             ELSE IF ability.mpCost > 0 /\ ~IsNumber(unitOf(w, sh).stats.mp)
             THEN pushLog(w, getUnitName(unitOf(w, sh)) \o " failed to cast " \o ability.name \o ".")
             ELSE IF ability.mpCost > 0 /\ unitOf(w, sh).stats.mp < ability.mpCost
             THEN pushLog(w, getUnitName(unitOf(w, sh)) \o " tried " \o ability.name \o " but lacked MP.")
             ELSE resolve(w, ability, sh, th)

executeCommand(w, command) ==
    IF w.battle.state # "in_progress" THEN w
    ELSE IF ~knownAbility(command.abilityId)
    THEN pushLog(w, "Invalid command: unknown ability.")
    ELSE IF command.abilityId = "flee"
    THEN LET found == findUnitInBattle(w, command.sourceId)
             sourceName == IF found = NotFound THEN "Unknown" ELSE getUnitName(unitOf(w, found))
         IN  [pushLog(w, sourceName \o " fled.") EXCEPT !.battle.state = "defeat"]
    ELSE IF activeRefOf(w.battle) = NoRef \/ activeRefOf(w.battle).id # command.sourceId
    THEN pushLog(w, "Invalid command: not active unit.")
    ELSE LET ability == ABILITIES_BY_ID[command.abilityId]
             sh == findUnitInBattle(w, command.sourceId)
             th == findUnitInBattle(w, command.targetId)
         IN  IF sh = NotFound \/ th = NotFound
             THEN pushLog(w, "Invalid command: missing source/target.")
             ELSE IF ability.mpCost > 0 /\ ~IsNumber(unitOf(w, sh).stats.mp)
             THEN pushLog(w, getUnitName(unitOf(w, sh)) \o " failed to cast " \o ability.name \o ".")
             ELSE IF ability.mpCost > 0 /\ unitOf(w, sh).stats.mp < ability.mpCost
             THEN pushLog(w, getUnitName(unitOf(w, sh)) \o " tried " \o ability.name \o " but lacked MP.")
             ELSE resolve(w, ability, sh, th)

(***************************************************************************)
(* Lifecycle manager.                                                      *)
(***************************************************************************)
\* The "ensure we land on an alive unit" loop of advanceTurn.
RECURSIVE skipDead(_, _)
skipDead(w, i) ==
    IF i >= Len(w.battle.turnOrder) THEN w
    ELSE IF getActiveUnit(w) # NotFound /\ isAlive(unitOf(w, getActiveUnit(w))) THEN w
    ELSE skipDead([w EXCEPT !.battle.activeTurnIndex = (@ + 1) % Len(w.battle.turnOrder)], i + 1)

\* advanceTurn that keeps the schedule as a queue: the unit that has acted
\* goes to the back and the next unit stands at index 0.
advanceTurn_requeue(w) ==
    IF w.battle.state # "in_progress" THEN w
    ELSE LET pruned == pruneDeadFromTurnOrder(w)
             nextState == recomputeState(pruned)
         IN  IF nextState # "in_progress"
             THEN [pruned EXCEPT !.battle.state = nextState,
                                 !.battle.log = Append(@, IF nextState = "victory" THEN "Victory!" ELSE "Defeat.")]
             ELSE IF Len(pruned.battle.turnOrder) = 0
             THEN [pruned EXCEPT !.battle.state = "defeat", !.battle.log = Append(@, "Defeat.")]
             ELSE [pruned EXCEPT !.battle.turnOrder = Tail(@) \o <<Head(@)>>,
                                 !.battle.activeTurnIndex = 0]

\* advanceTurn without the return for a battle that has ended.
advanceTurn_everyState(w) ==
    IF w.battle.state \notin {"in_progress", "victory", "defeat"} THEN w
    ELSE LET pruned == pruneDeadFromTurnOrder(w)
             nextState == recomputeState(pruned)
         IN  IF nextState # "in_progress"
             THEN [pruned EXCEPT !.battle.state = nextState,
                                 !.battle.log = Append(@, IF nextState = "victory" THEN "Victory!" ELSE "Defeat.")]
             ELSE IF Len(pruned.battle.turnOrder) = 0
             THEN [pruned EXCEPT !.battle.state = "defeat", !.battle.log = Append(@, "Defeat.")]
             ELSE skipDead([pruned EXCEPT !.battle.activeTurnIndex =
                                (@ + 1) % Len(pruned.battle.turnOrder)], 0)

advanceTurn(w) ==
    IF w.battle.state # "in_progress" THEN w
    ELSE LET pruned == pruneDeadFromTurnOrder(w)
             nextState == recomputeState(pruned)
         IN  IF nextState # "in_progress"
             THEN [pruned EXCEPT !.battle.state = nextState,
                                 !.battle.log = Append(@, IF nextState = "victory" THEN "Victory!" ELSE "Defeat.")]
             ELSE IF Len(pruned.battle.turnOrder) = 0
             THEN [pruned EXCEPT !.battle.state = "defeat", !.battle.log = Append(@, "Defeat.")]
             ELSE skipDead([pruned EXCEPT !.battle.activeTurnIndex =
                                (@ + 1) % Len(pruned.battle.turnOrder)], 0)

\* makeBattleId draws a fresh id: one that no battle of the store has.
makeBattleId == IF "battle_1" \in DOMAIN battlesById THEN "battle_2" ELSE "battle_1"

\* enemies.map((e) => ({ ...e }))
copyEnemies(enemies) == [i \in 1..Len(enemies) |-> enemies[i]]

\* createBattle that starts the battle only if a party member is scheduled.
createBattle_partyOnly(p, enemies) ==
    LET id == makeBattleId
        turnOrder == calculateInitialTurnOrder(p.members, enemies)
        state == IF \E k \in DOMAIN turnOrder : turnOrder[k].kind = "party"
                 THEN "in_progress" ELSE "defeat"
    IN  [id |-> id,
         partyId |-> p.id,
         enemies |-> copyEnemies(enemies),
         turnOrder |-> turnOrder,
         activeTurnIndex |-> 0,
         log |-> IF state = "in_progress"
                 THEN <<"Battle " \o id \o " created.", "Battle started.">>
                 ELSE <<"Battle " \o id \o " created.">>,
         state |-> state]

createBattle(p, enemies) ==
    LET id == makeBattleId
        turnOrder == calculateInitialTurnOrder(p.members, enemies)
        state == IF Len(turnOrder) > 0 THEN "in_progress" ELSE "defeat"
    IN  [id |-> id,
         partyId |-> p.id,
         enemies |-> copyEnemies(enemies),
         turnOrder |-> turnOrder,
         activeTurnIndex |-> 0,
         log |-> IF state = "in_progress"
                 THEN <<"Battle " \o id \o " created.", "Battle started.">>
                 ELSE <<"Battle " \o id \o " created.">>,
         state |-> state]

(***************************************************************************)
(* Command validator and enemy auto-resolution (server.js).                *)
(***************************************************************************)
unitById(w, unitId) ==
    IF findIndexById(w.party.members, unitId) # 0
    THEN [kind |-> "party", idx |-> findIndexById(w.party.members, unitId)]
    ELSE IF findIndexById(w.battle.enemies, unitId) # 0
    THEN [kind |-> "enemy", idx |-> findIndexById(w.battle.enemies, unitId)]
    ELSE NotFound

\* findFirstAlivePartyMemberId that answers the first member, alive or not.
findFirstAlivePartyMemberId_anyMember(w) ==
    IF w.party.members # <<>> THEN w.party.members[1].id ELSE Null

findFirstAlivePartyMemberId(w) ==
    LET alive(m) == numberOr0(m.stats.hp) > 0
        members == w.party.members
    IN  IF \E i \in DOMAIN members : alive(members[i])
        THEN members[CHOOSE i \in DOMAIN members :
                        alive(members[i]) /\ \A j \in 1..(i - 1) : ~alive(members[j])].id
        ELSE Null

Verdict(ok, reason) == [ok |-> ok, reason |-> reason]

\* validateBattleCommand without the comparison of sourceId with the active reference.
validateBattleCommand_anySource(w, playerId, command) ==
    IF w.battle.state # "in_progress" THEN Verdict(FALSE, "battle not in progress")
    ELSE IF Len(w.battle.turnOrder) = 0 THEN Verdict(FALSE, "no turn order")
    ELSE IF activeRefOf(w.battle).kind # "party" THEN Verdict(FALSE, "not player turn")
    ELSE IF w.party.playerId # playerId THEN Verdict(FALSE, "battle not owned by player")
    ELSE IF ~IsString(command.sourceId)
    THEN Verdict(FALSE, "invalid source for active turn")
    ELSE IF ~knownAbility(command.abilityId) THEN Verdict(FALSE, "unknown ability")
    ELSE IF unitById(w, command.sourceId) = NotFound THEN Verdict(FALSE, "missing source")
    ELSE LET ability == ABILITIES_BY_ID[command.abilityId]
             source == unitOf(w, unitById(w, command.sourceId))
             targetId == IF ability.targetType = "self" THEN command.sourceId ELSE command.targetId
             targetFound == unitById(w, targetId)
         IN  IF ability.mpCost > 0 /\ (~IsNumber(source.stats.mp) \/ source.stats.mp < ability.mpCost)
             THEN Verdict(FALSE, "not enough MP")
             ELSE IF ~IsString(targetId) THEN Verdict(FALSE, "missing target")
             ELSE IF targetFound = NotFound THEN Verdict(FALSE, "target not found")
             ELSE IF ability.targetType = "enemy_single" /\ targetFound.kind # "enemy"
             THEN Verdict(FALSE, "target must be enemy")
             ELSE IF ability.targetType = "ally_single" /\ targetFound.kind # "party"
             THEN Verdict(FALSE, "target must be ally")
             ELSE IF ability.targetType \in {"party", "enemy_all"}
             THEN Verdict(FALSE, "unsupported target type")
             ELSE Verdict(TRUE, "")

\* validateBattleCommand without the ownership check.
validateBattleCommand_anyPlayer(w, playerId, command) ==
    IF w.battle.state # "in_progress" THEN Verdict(FALSE, "battle not in progress")
    ELSE IF Len(w.battle.turnOrder) = 0 THEN Verdict(FALSE, "no turn order")
    ELSE IF activeRefOf(w.battle).kind # "party" THEN Verdict(FALSE, "not player turn")
    ELSE IF ~IsString(command.sourceId) \/ command.sourceId # activeRefOf(w.battle).id
    THEN Verdict(FALSE, "invalid source for active turn")
    ELSE IF ~knownAbility(command.abilityId) THEN Verdict(FALSE, "unknown ability")
    ELSE IF unitById(w, command.sourceId) = NotFound THEN Verdict(FALSE, "missing source")
    ELSE LET ability == ABILITIES_BY_ID[command.abilityId]
             source == unitOf(w, unitById(w, command.sourceId))
             targetId == IF ability.targetType = "self" THEN command.sourceId ELSE command.targetId
             targetFound == unitById(w, targetId)
         IN  IF ability.mpCost > 0 /\ (~IsNumber(source.stats.mp) \/ source.stats.mp < ability.mpCost)
             THEN Verdict(FALSE, "not enough MP")
             ELSE IF ~IsString(targetId) THEN Verdict(FALSE, "missing target")
             ELSE IF targetFound = NotFound THEN Verdict(FALSE, "target not found")
             ELSE IF ability.targetType = "enemy_single" /\ targetFound.kind # "enemy"
             THEN Verdict(FALSE, "target must be enemy")
             ELSE IF ability.targetType = "ally_single" /\ targetFound.kind # "party"
             THEN Verdict(FALSE, "target must be ally")
             ELSE IF ability.targetType \in {"party", "enemy_all"}
             THEN Verdict(FALSE, "unsupported target type")
             ELSE Verdict(TRUE, "")

\* validateBattleCommand without the comparison of mp with mpCost.
validateBattleCommand_anyMp(w, playerId, command) ==
    IF w.battle.state # "in_progress" THEN Verdict(FALSE, "battle not in progress")
    ELSE IF Len(w.battle.turnOrder) = 0 THEN Verdict(FALSE, "no turn order")
    ELSE IF activeRefOf(w.battle).kind # "party" THEN Verdict(FALSE, "not player turn")
    ELSE IF w.party.playerId # playerId THEN Verdict(FALSE, "battle not owned by player")
    ELSE IF ~IsString(command.sourceId) \/ command.sourceId # activeRefOf(w.battle).id
    THEN Verdict(FALSE, "invalid source for active turn")
    ELSE IF ~knownAbility(command.abilityId) THEN Verdict(FALSE, "unknown ability")
    ELSE IF unitById(w, command.sourceId) = NotFound THEN Verdict(FALSE, "missing source")
    ELSE LET ability == ABILITIES_BY_ID[command.abilityId]
             source == unitOf(w, unitById(w, command.sourceId))
             targetId == IF ability.targetType = "self" THEN command.sourceId ELSE command.targetId
             targetFound == unitById(w, targetId)
         IN  IF ability.mpCost > 0 /\ ~IsNumber(source.stats.mp)
             THEN Verdict(FALSE, "not enough MP")
             ELSE IF ~IsString(targetId) THEN Verdict(FALSE, "missing target")
             ELSE IF targetFound = NotFound THEN Verdict(FALSE, "target not found")
             ELSE IF ability.targetType = "enemy_single" /\ targetFound.kind # "enemy"
             THEN Verdict(FALSE, "target must be enemy")
             ELSE IF ability.targetType = "ally_single" /\ targetFound.kind # "party"
             THEN Verdict(FALSE, "target must be ally")
             ELSE IF ability.targetType \in {"party", "enemy_all"}
             THEN Verdict(FALSE, "unsupported target type")
             ELSE Verdict(TRUE, "")

\* validateBattleCommand with enemy_all let through.
validateBattleCommand_groups(w, playerId, command) ==
    IF w.battle.state # "in_progress" THEN Verdict(FALSE, "battle not in progress")
    ELSE IF Len(w.battle.turnOrder) = 0 THEN Verdict(FALSE, "no turn order")
    ELSE IF activeRefOf(w.battle).kind # "party" THEN Verdict(FALSE, "not player turn")
    ELSE IF w.party.playerId # playerId THEN Verdict(FALSE, "battle not owned by player")
    ELSE IF ~IsString(command.sourceId) \/ command.sourceId # activeRefOf(w.battle).id
    THEN Verdict(FALSE, "invalid source for active turn")
    ELSE IF ~knownAbility(command.abilityId) THEN Verdict(FALSE, "unknown ability")
    ELSE IF unitById(w, command.sourceId) = NotFound THEN Verdict(FALSE, "missing source")
    ELSE LET ability == ABILITIES_BY_ID[command.abilityId]
             source == unitOf(w, unitById(w, command.sourceId))
             targetId == IF ability.targetType = "self" THEN command.sourceId ELSE command.targetId
             targetFound == unitById(w, targetId)
         IN  IF ability.mpCost > 0 /\ (~IsNumber(source.stats.mp) \/ source.stats.mp < ability.mpCost)
             THEN Verdict(FALSE, "not enough MP")
             ELSE IF ~IsString(targetId) THEN Verdict(FALSE, "missing target")
             ELSE IF targetFound = NotFound THEN Verdict(FALSE, "target not found")
             ELSE IF ability.targetType = "enemy_single" /\ targetFound.kind # "enemy"
             THEN Verdict(FALSE, "target must be enemy")
             ELSE IF ability.targetType = "ally_single" /\ targetFound.kind # "party"
             THEN Verdict(FALSE, "target must be ally")
             ELSE IF ability.targetType \in {"party"}
             THEN Verdict(FALSE, "unsupported target type")
             ELSE Verdict(TRUE, "")

validateBattleCommand(w, playerId, command) ==
    IF w.battle.state # "in_progress" THEN Verdict(FALSE, "battle not in progress")
    ELSE IF Len(w.battle.turnOrder) = 0 THEN Verdict(FALSE, "no turn order")
    ELSE IF activeRefOf(w.battle).kind # "party" THEN Verdict(FALSE, "not player turn")
    ELSE IF w.party.playerId # playerId THEN Verdict(FALSE, "battle not owned by player")
    ELSE IF ~IsString(command.sourceId) \/ command.sourceId # activeRefOf(w.battle).id
    THEN Verdict(FALSE, "invalid source for active turn")
    ELSE IF ~knownAbility(command.abilityId) THEN Verdict(FALSE, "unknown ability")
    ELSE IF unitById(w, command.sourceId) = NotFound THEN Verdict(FALSE, "missing source")
    ELSE LET ability == ABILITIES_BY_ID[command.abilityId]
             source == unitOf(w, unitById(w, command.sourceId))
             targetId == IF ability.targetType = "self" THEN command.sourceId ELSE command.targetId
             targetFound == unitById(w, targetId)
         IN  IF ability.mpCost > 0 /\ (~IsNumber(source.stats.mp) \/ source.stats.mp < ability.mpCost)
             THEN Verdict(FALSE, "not enough MP")
             ELSE IF ~IsString(targetId) THEN Verdict(FALSE, "missing target")
             ELSE IF targetFound = NotFound THEN Verdict(FALSE, "target not found")
             ELSE IF ability.targetType = "enemy_single" /\ targetFound.kind # "enemy"
             THEN Verdict(FALSE, "target must be enemy")
             ELSE IF ability.targetType = "ally_single" /\ targetFound.kind # "party"
             THEN Verdict(FALSE, "target must be ally")
             ELSE IF ability.targetType \in {"party", "enemy_all"}
             THEN Verdict(FALSE, "unsupported target type")
             ELSE Verdict(TRUE, "")

\* Every pass of the loop of runEnemyTurns that does not break takes at least
\* one HP from a living party member, so the passes are counted down from the
\* HP the party has; a loop that outlives the count is reported as diverged.
RECURSIVE sumHp(_)
sumHp(members) ==
    IF members = <<>> THEN 0 ELSE Max(0, getUnitHp(Head(members))) + sumHp(Tail(members))

RECURSIVE enemyLoop(_, _)
enemyLoop(w, fuel) ==
    IF w.battle.state # "in_progress" THEN [w |-> w, diverged |-> FALSE]
    ELSE IF activeRefOf(w.battle).kind # "enemy" THEN [w |-> w, diverged |-> FALSE]
    ELSE IF fuel = 0 THEN [w |-> w, diverged |-> TRUE]
    ELSE IF findIndexById(w.battle.enemies, activeRefOf(w.battle).id) = 0
    THEN enemyLoop(advanceTurn(w), fuel - 1)
    ELSE IF findFirstAlivePartyMemberId(w) = Null THEN [w |-> w, diverged |-> FALSE]
    ELSE enemyLoop(advanceTurn(executeCommand(w,
                       Command(activeRefOf(w.battle).id, findFirstAlivePartyMemberId(w), "basic_attack"))),
                   fuel - 1)

runEnemyTurns(w) == enemyLoop(w, sumHp(w.party.members) + Len(w.battle.turnOrder) + 1)

\* One pass of the loop of runEnemyTurns, for the behaviours that follow the
\* loop pass by pass.  enemyTurnsRun is the condition to go on after the first
\* break, enemyTurnBreaks the second break (an enemy without a living
\* target), enemyCommand the command of the pass, enemyTurn what the pass
\* leaves.
enemyTurnsRun(w) ==
    w.battle.state = "in_progress" /\ activeRefOf(w.battle).kind = "enemy"

enemyTurnBreaks(w) ==
    /\ findIndexById(w.battle.enemies, activeRefOf(w.battle).id) # 0
    /\ findFirstAlivePartyMemberId(w) = Null

enemyCommand(w) ==
    IF findIndexById(w.battle.enemies, activeRefOf(w.battle).id) = 0
    THEN Command(Null, Null, Null)
    ELSE Command(w.battle.enemies[findIndexById(w.battle.enemies, activeRefOf(w.battle).id)].id,
                 findFirstAlivePartyMemberId(w), "basic_attack")

enemyTurn(w) ==
    IF findIndexById(w.battle.enemies, activeRefOf(w.battle).id) = 0
    THEN advanceTurn(w)
    ELSE advanceTurn(executeCommand(w, enemyCommand(w)))

(***************************************************************************)
(* Parties and enemies the behaviours start from: the units of the test    *)
(* suite (battleManager.test.js), of models.js and of                      *)
(* makeEnemyFromWorldObject, and plain objects with missing fields.        *)
(***************************************************************************)
defaultCrystalResonance ==
    << <<"FOREST", 0>>, <<"WATER", 0>>, <<"FIRE", 0>>, <<"EARTH", 0>>, <<"WIND", 0>>, <<"SHADOW", 0>> >>

shadowResonance ==
    << <<"FOREST", 0>>, <<"WATER", 0>>, <<"FIRE", 0>>, <<"EARTH", 0>>, <<"WIND", 0>>, <<"SHADOW", 1>> >>

Hero == Unit("c1", "Hero", "", <<>>, Stats(10, 10, 0, 0, 10, 0, 1, 10, 0))
Mira == Unit("c1", "Mira", "", <<>>, Stats(10, 10, 12, 50, 1, 0, 10, 10, 0))
Lysa == Unit("c1", "Lysa", "", <<>>, Stats(10, 10, 10, 10, 10, 0, 10, 10, 0))
Ally == Unit("c2", "Ally", "", <<>>, Stats(5, 30, 0, 0, 10, 0, 10, 1, 0))
Protagonist == Unit("c1", "Protagonist", "", defaultCrystalResonance, Stats(20, 20, 8, 8, 6, 5, 4, 6, 5))
Duskblade == Unit("c2", "Mira", "", shadowResonance, Stats(9, 22, 10, 10, 6, 4, 5, 8, 4))
Fallen == Unit("c2", "Garron", "", <<>>, Stats(0, 30, 6, 6, 7, 8, 2, 3, 4))
Plain == Unit("c2", "", "", <<>>,
              Stats(12, Undefined, Undefined, Undefined, Undefined, Undefined, Undefined, 1, Undefined))
Overfull == Unit("c2", "Thalen", "", <<>>, Stats(25, 20, 16, 16, 4, 5, 7, 5, 7))

Goblin == Unit("e1", "Goblin", "", <<>>, Stats(20, 20, 10, 10, 10, 0, 10, 1, 0))
Dummy == Unit("e1", "Dummy", "", <<>>, Stats(1, 1, 10, 10, 10, 0, 10, 0, 0))
StoneWisp == Unit("e1", "Stone Wisp", "EARTH", <<>>, Stats(40, 40, 10, 10, 10, 0, 10, 1, 0))
WorldEnemy(element) == Unit("e1", "Enemy", element, <<>>, Stats(14, 14, 0, 0, 4, 3, 2, 3, 3))
Wolf == Unit("e2", "Wolf", "NULL", <<>>, Stats(6, 6, 0, 0, 4, 3, 2, 12, 3))
Husk == Unit("e2", "Husk", "SHADOW", <<>>, Stats(0, 8, 0, 0, 4, 3, 2, 5, 3))
\* A party member that carries the id of an enemy: ids are the strings the
\* caller gives, and nothing keeps the two lists apart.
Namesake == Unit("e1", "Namesake", "", <<>>, Stats(8, 8, 4, 4, 2, 0, 2, 2, 0))

OwnerId == "player1"

Party(members) ==
    [id |-> "party1", playerId |-> OwnerId, members |-> members, currentState |-> "battle"]

Scenario(members, enemies) == [party |-> Party(members), enemies |-> enemies]

Scenarios ==
    { Scenario(<<Hero>>, <<Goblin>>), Scenario(<<Hero>>, <<Dummy, Wolf>>),
      Scenario(<<Hero>>, <<Goblin, Husk>>), Scenario(<<Hero>>, <<>>),
      Scenario(<<Hero>>, <<WorldEnemy("NULL")>>),
      Scenario(<<Mira>>, <<StoneWisp>>), Scenario(<<Mira>>, <<WorldEnemy("SHADOW")>>),
      Scenario(<<Mira>>, <<WorldEnemy("FIRE")>>), Scenario(<<Mira>>, <<WorldEnemy("LIGHT")>>),
      Scenario(<<Mira>>, <<WorldEnemy("WIND")>>),
      Scenario(<<Lysa, Ally>>, <<Dummy>>),
      Scenario(<<Protagonist>>, <<WorldEnemy("NULL")>>),
      Scenario(<<Lysa, Duskblade>>, <<Goblin>>), Scenario(<<Hero, Plain>>, <<Goblin>>),
      Scenario(<<Lysa, Fallen>>, <<Dummy, Wolf>>), Scenario(<<Mira, Overfull>>, <<StoneWisp>>),
      Scenario(<<Fallen>>, <<Goblin>>), Scenario(<<Fallen>>, <<>>), Scenario(<<Fallen>>, <<Husk>>) }

(***************************************************************************)
(* Inputs of the calls.                                                    *)
(***************************************************************************)
CommandSourceIds == {"c1", "c2", "e1"}
CommandTargetIds == {"c1", "c2", "e1", "e2"}
CommandAbilityIds ==
    { "basic_attack", "defend", "flee", "crystalborne_lumen_arc", "sage_mend",
      "knight_taunt", "knight_heavy_strike", "aeromancer_gale_sweep",
      "aeromancer_chain_spark", "umbramancer_venom_hex", "crystal_knight_prismatic_aegis" }

\* Commands with an ability id that names no ability or is no string, and
\* commands without a targetId.
MalformedCommands ==
    { Command(s, t, a) : s \in {"c1", "e1"}, t \in {"c1", Null}, a \in {"fireball", Null} }
        \cup { Command(s, Null, a) : s \in {"c1", "c2"},
                                      a \in {"basic_attack", "defend", "flee", "sage_mend"} }

Commands ==
    { Command(s, t, a) : s \in CommandSourceIds, t \in CommandTargetIds, a \in CommandAbilityIds }
        \cup MalformedCommands

\* Commands sent without a sourceId, for the handler to fill in.
SourcelessCommands ==
    { Command(Null, t, a) : t \in {"c1", "e1"}, a \in {"basic_attack", "defend", "sage_mend"} }

\* The commands a player who does not own the party sends.
IntruderCommands ==
    { Command("c1", t, a) : t \in {"c1", "e1"}, a \in {"basic_attack", "sage_mend", "flee"} }

\* The calls of validateBattleCommand on its own; the handler validates every
\* command of Commands for the owner.
ProbeCommands ==
    { Command(s, t, a) : s \in CommandSourceIds \cup {Null}, t \in {"c1", "e1"},
                         a \in {"basic_attack", "sage_mend", "aeromancer_gale_sweep", Null} }

Requests ==
    { <<OwnerId, c>> : c \in ProbeCommands } \cup { <<"player2", c>> : c \in IntruderCommands }

(***************************************************************************)
(* The store.                                                              *)
(***************************************************************************)
NoBattle ==
    [id |-> Null, partyId |-> Null, enemies |-> <<>>, turnOrder |-> <<>>,
     activeTurnIndex |-> 0, log |-> <<>>, state |-> "none"]

stored == DOMAIN battlesById # {}

\* The id the caller holds: that of the active battle of the player, that of
\* the one battle created where the engine is called without a player.
heldBattleId == IF player.activeBattleId # Null THEN player.activeBattleId ELSE "battle_1"

\* getBattleById(heldBattleId)
battle == IF heldBattleId \in DOMAIN battlesById THEN battlesById[heldBattleId] ELSE NoBattle

\* getPartyForBattle(battle.id): the side table holds the party object itself.
world == World(battle, party)

\* battle.enemies[i] is a shallow copy of enemies[i]: the stats object and the
\* statusEffects array of a template are shared with the battle's enemy.
shareWithTemplates(enemies) ==
    [i \in DOMAIN templates |->
        [templates[i] EXCEPT !.stats = enemies[i].stats, !.statusEffects = enemies[i].statusEffects]]

NoCommand == Command(Null, Null, Null)

\* The record of a call: what was passed, the battle and the party before it,
\* the battle and the party it left (for the handler, the snapshot it sends).
Call(op, playerId, command, verdict, pre, post) ==
    [op |-> op, playerId |-> playerId, command |-> command, verdict |-> verdict,
     pre |-> pre, post |-> post, order |-> <<>>, enemiesIsArray |-> TRUE]

\* The guards at the head of createBattle: the message of the TypeError it
\* throws, "" when it throws none.  enemiesIsArray is Array.isArray(enemies).
createBattleError_idOnly(p, enemiesIsArray) ==
    IF ~IsString(p.id) THEN "createBattle: party must have an id" ELSE ""

createBattleError(p, enemiesIsArray) ==
    IF ~IsString(p.id) THEN "createBattle: party must have an id"
    ELSE IF ~enemiesIsArray THEN "createBattle: enemies must be an array"
    ELSE ""

\* The guard at the head of executeCommand and of advanceTurn, for the battle
\* getBattleById has answered; fn is the name of the function.
battleRequiredError(fn, b) ==
    IF b = NoBattle THEN fn \o ": battle is required" ELSE ""

\* The record of a call that has thrown: nothing was returned, and the call
\* left what it was given as it found it.
Threw(op, command, message, w) ==
    Call(op \o "Threw", Null, command, Verdict(FALSE, "TypeError: " \o message), w, w)

\* No connection: the engine is called by a program of its own (the tests).
NoSession ==
    [id |-> Null, save |-> [hp |-> 0, maxHp |-> 0], activeBattleId |-> Null,
     activeBattleEnemyId |-> Null]

Idle ==
    Call("none", Null, NoCommand, Verdict(FALSE, ""),
         World(NoBattle, Party(<<>>)), World(NoBattle, Party(<<>>)))

store(w) ==
    /\ battlesById' = [battlesById EXCEPT ![w.battle.id] = w.battle]
    /\ party' = w.party
    /\ templates' = shareWithTemplates(w.battle.enemies)
    /\ UNCHANGED partyByBattleId

\* A party object without an id, handed to createBattle by a caller at fault.
MalformedScenarios ==
    { [party |-> [Party(<<Hero>>) EXCEPT !.id = Null], enemies |-> <<Goblin>>] }

\* The commands of a caller that holds no battle.
MisuseCommands == { Command("c1", "e1", "basic_attack"), Command("c1", "c1", "flee") }

Init ==
    /\ \E sc \in Scenarios \cup MalformedScenarios : party = sc.party /\ templates = sc.enemies
    /\ battlesById = <<>>
    /\ partyByBattleId = <<>>
    /\ last = Idle
    /\ player = NoSession
    /\ objects = <<>>

\* createBattle is called with the party and the enemy list of a scenario,
\* or with the party and something that is not an array.
CreateBattle(enemiesIsArray) ==
    /\ last.op = "none"
    /\ stored => createBattleError(party, enemiesIsArray) # "" /\ Len(battle.log) < MaxLog
    /\ [party |-> party, enemies |-> templates] \in Scenarios \cup MalformedScenarios
    /\ IF createBattleError(party, enemiesIsArray) # ""
       THEN /\ last' = [Threw("createBattle", NoCommand, createBattleError(party, enemiesIsArray), world)
                           EXCEPT !.enemiesIsArray = enemiesIsArray]
            /\ UNCHANGED <<battlesById, partyByBattleId>>
       ELSE /\ LET b == createBattle(party, templates)
               IN  /\ battlesById' = (b.id :> b)
                   /\ partyByBattleId' = (b.id :> party.id)
            /\ last' = [Call("createBattle", Null, NoCommand, Verdict(TRUE, ""), world,
                              World(createBattle(party, templates), party))
                           EXCEPT !.enemiesIsArray = enemiesIsArray]
    /\ UNCHANGED <<party, templates>>
    /\ UNCHANGED serverVars

Validate(playerId, command) ==
    /\ last.op = "none"
    /\ stored
    /\ Len(battle.log) < MaxLog
    /\ last' = Call("validateBattleCommand", playerId, command,
                     validateBattleCommand(world, playerId, command), world, world)
    /\ UNCHANGED <<party, templates, battlesById, partyByBattleId>>
    /\ UNCHANGED serverVars

\* executeCommand is called with the battle of the store, or with the null
\* getBattleById answers while the store holds none.
ExecuteCommand(command) ==
    /\ last.op = "none"
    /\ stored => Len(battle.log) < MaxLog
    /\ ~stored => command \in MisuseCommands
    /\ IF battleRequiredError("executeCommand", battle) # ""
       THEN /\ last' = Threw("executeCommand", command,
                              battleRequiredError("executeCommand", battle), world)
            /\ UNCHANGED <<party, templates, battlesById, partyByBattleId>>
       ELSE /\ store(executeCommand(world, command))
            /\ last' = Call("executeCommand", Null, command, Verdict(TRUE, ""), world,
                             executeCommand(world, command))
    /\ UNCHANGED serverVars

AdvanceTurn ==
    /\ last.op = "none"
    /\ stored => Len(battle.log) < MaxLog
    /\ IF battleRequiredError("advanceTurn", battle) # ""
       THEN /\ last' = Threw("advanceTurn", NoCommand,
                              battleRequiredError("advanceTurn", battle), world)
            /\ UNCHANGED <<party, templates, battlesById, partyByBattleId>>
       ELSE /\ store(advanceTurn(world))
            /\ last' = Call("advanceTurn", Null, NoCommand, Verdict(TRUE, ""), world,
                             advanceTurn(world))
    /\ UNCHANGED serverVars

\* The BATTLE_COMMAND handler from the lookup of the battle on: normalise,
\* validate, then reject, or execute, advance, run the enemy turns and delete
\* a battle that has ended.  The party of a player's active battle is the
\* player's own.
normalize(command) ==
    [command EXCEPT !.sourceId = IF IsString(@) THEN @ ELSE activeRefOf(battle).id]

\* submitCommand with the turn passed on after a rejection.
submitCommand_passesTurn(w, playerId, normalized) ==
    IF ~validateBattleCommand(w, playerId, normalized).ok
    THEN runEnemyTurns(advanceTurn(pushLog(w,
             "Invalid command: " \o validateBattleCommand(w, playerId, normalized).reason \o "."))).w
    ELSE runEnemyTurns(advanceTurn(executeCommand(w, normalized))).w

submitCommand(w, playerId, normalized) ==
    IF ~validateBattleCommand(w, playerId, normalized).ok
    THEN pushLog(w, "Invalid command: " \o validateBattleCommand(w, playerId, normalized).reason \o ".")
    ELSE runEnemyTurns(advanceTurn(executeCommand(w, normalized))).w

BattleCommand(playerId, command) ==
    /\ last.op = "none"
    /\ stored
    /\ Len(battle.log) < MaxLog
    /\ LET verdict == validateBattleCommand(world, playerId, normalize(command))
           w == submitCommand(world, playerId, normalize(command))
       IN  /\ IF verdict.ok /\ w.battle.state \in {"victory", "defeat"}
              THEN /\ battlesById' = <<>>
                   /\ partyByBattleId' = <<>>
                   /\ party' = w.party
                   /\ templates' = shareWithTemplates(w.battle.enemies)
              ELSE store(w)
           /\ last' = Call("battleCommand", playerId, normalize(command), verdict, world, w)
    /\ UNCHANGED serverVars

DeleteBattle ==
    /\ last.op = "none"
    /\ stored
    /\ battlesById' = <<>>
    /\ partyByBattleId' = <<>>
    /\ last' = Call("deleteBattleById", Null, NoCommand, Verdict(TRUE, ""), world,
                     World(NoBattle, party))
    /\ UNCHANGED <<party, templates>>
    /\ UNCHANGED serverVars

\* The caller has read the result; the next call can be made.
Return ==
    /\ last.op # "none"
    /\ last' = Idle
    /\ UNCHANGED <<party, templates, battlesById, partyByBattleId>>
    /\ UNCHANGED serverVars

\* A call is made once the previous one has returned.
ready == last.op = "none"

Next ==
    \/ \E enemiesIsArray \in BOOLEAN : CreateBattle(enemiesIsArray)
    \/ ready /\ \E r \in Requests : Validate(r[1], r[2])
    \/ ready /\ \E command \in Commands : ExecuteCommand(command)
    \/ AdvanceTurn
    \/ ready /\ \E command \in Commands \cup SourcelessCommands : BattleCommand(OwnerId, command)
    \/ DeleteBattle
    \/ Return

Spec == Init /\ [][Next]_vars

(***************************************************************************)
(* The scheduler on its own: calculateInitialTurnOrder applied to parties  *)
(* and enemy lists of up to MaxUnits units each, with equal speeds, dead   *)
(* units, a missing speed and an id that a member and an enemy share.      *)
(***************************************************************************)
MaxUnits == 2

OrderSpeeds == {1, 5, Undefined}
OrderHps == {0, 7}

Combatant(id, hp, speed) ==
    Unit(id, "", "", <<>>, Stats(hp, 10, 0, 0, 1, 1, 1, speed, 1))

\* The lists of at most n units with pairwise different ids drawn from ids.
RECURSIVE unitLists(_, _)
unitLists(ids, n) ==
    IF n = 0 THEN {<<>>}
    ELSE LET shorter == unitLists(ids, n - 1)
         IN  shorter \cup
             { Append(l, Combatant(id, hp, speed)) :
                 l \in {x \in shorter : Len(x) = n - 1}, id \in ids, hp \in OrderHps, speed \in OrderSpeeds }

distinctIds(list) == \A i, j \in DOMAIN list : i # j => list[i].id # list[j].id

OrderMemberLists == {l \in unitLists({"c1", "c2", "x1"}, MaxUnits) : distinctIds(l)}
OrderEnemyLists == {l \in unitLists({"e1", "x1"}, MaxUnits) : distinctIds(l)}

\* The lists of the test "calculateInitialTurnOrder: higher speed acts first".
TestMembers == <<Combatant("p_slow", 10, 1), Combatant("p_fast", 10, 9)>>
TestEnemies == <<Combatant("e_mid", 10, 5), Combatant("e_fast", 10, 8)>>

InitOrder ==
    /\ \/ party \in {Party(l) : l \in OrderMemberLists} /\ templates \in OrderEnemyLists
       \/ party = Party(TestMembers) /\ templates = TestEnemies
    /\ battlesById = <<>>
    /\ partyByBattleId = <<>>
    /\ last = Idle
    /\ player = NoSession
    /\ objects = <<>>

ComputeOrder ==
    /\ last.op = "none"
    /\ last' = [Idle EXCEPT !.op = "calculateInitialTurnOrder",
                            !.order = calculateInitialTurnOrder(party.members, templates)]
    /\ UNCHANGED <<party, templates, battlesById, partyByBattleId>>
    /\ UNCHANGED serverVars

NextOrder == ComputeOrder

SpecOrder == InitOrder /\ [][NextOrder]_vars

(***************************************************************************)
(* The engine played through: createBattle, then executeCommand,           *)
(* advanceTurn and runEnemyTurns called one after the other on the same    *)
(* battle, until its log holds MaxPlayLog lines.  The commands are those   *)
(* the executor takes from any caller, checked by no validator.            *)
(***************************************************************************)
MaxPlayLog == 5

PlayScenarios ==
    { Scenario(<<Mira>>, <<StoneWisp>>),
      Scenario(<<Lysa, Ally>>, <<Dummy>>),
      Scenario(<<Fallen>>, <<Dummy, Husk>>),
      Scenario(<<Fallen, Lysa>>, <<Wolf>>),
      Scenario(<<Protagonist>>, <<WorldEnemy("NULL"), Wolf>>),
      Scenario(<<Lysa, Namesake>>, <<Goblin>>) }

PlayCommands ==
    { Command("c1", "e1", "basic_attack"), Command("c1", "e1", "umbramancer_venom_hex"),
      Command("c1", "e1", "umbramancer_sunder_ward"), Command("c1", "c2", "sage_mend"),
      Command("c1", "c1", "defend"), Command("c1", "c1", "flee"),
      Command("e1", "c2", "sage_mend"), Command("e1", "e2", "sage_mend"),
      Command("e1", "e1", "basic_attack"), Command("e2", "c1", "basic_attack") }

\* Inside a call of runEnemyTurns.
inEnemyTurns == last.op \in {"runEnemyTurns", "enemyTurn"}

InitPlay ==
    /\ \E sc \in PlayScenarios : party = sc.party /\ templates = sc.enemies
    /\ battlesById = <<>>
    /\ partyByBattleId = <<>>
    /\ last = Idle
    /\ player = NoSession
    /\ objects = <<>>

PlayCreateBattle ==
    /\ ~stored
    /\ last.op = "none"
    /\ LET b == createBattle(party, templates)
       IN  /\ battlesById' = (b.id :> b)
           /\ partyByBattleId' = (b.id :> party.id)
    /\ last' = Call("createBattle", Null, NoCommand, Verdict(TRUE, ""), world,
                     World(createBattle(party, templates), party))
    /\ UNCHANGED <<party, templates>>
    /\ UNCHANGED serverVars

PlayExecuteCommand(command) ==
    /\ stored
    /\ ~inEnemyTurns
    /\ Len(battle.log) < MaxPlayLog
    /\ store(executeCommand(world, command))
    /\ last' = Call("executeCommand", Null, command, Verdict(TRUE, ""), world,
                     executeCommand(world, command))
    /\ UNCHANGED serverVars

PlayAdvanceTurn ==
    /\ stored
    /\ ~inEnemyTurns
    /\ Len(battle.log) < MaxPlayLog
    /\ store(advanceTurn(world))
    /\ last' = Call("advanceTurn", Null, NoCommand, Verdict(TRUE, ""), world, advanceTurn(world))
    /\ UNCHANGED serverVars

\* runEnemyTurns is entered.
RunEnemyTurns ==
    /\ stored
    /\ ~inEnemyTurns
    /\ Len(battle.log) < MaxPlayLog
    /\ last' = Call("runEnemyTurns", Null, NoCommand, Verdict(TRUE, ""), world, world)
    /\ UNCHANGED <<party, templates, battlesById, partyByBattleId>>
    /\ UNCHANGED serverVars

\* One pass of its loop that reaches advanceTurn.
EnemyTurn ==
    /\ inEnemyTurns
    /\ enemyTurnsRun(world)
    /\ ~enemyTurnBreaks(world)
    /\ \E w \in {enemyTurn(world)} :
          /\ store(w)
          /\ last' = Call("enemyTurn", Null, enemyCommand(world), Verdict(TRUE, ""), world, w)
    /\ UNCHANGED serverVars

\* The loop is left, by its condition or by a break.
EnemyTurnsEnd ==
    /\ inEnemyTurns
    /\ ~enemyTurnsRun(world) \/ enemyTurnBreaks(world)
    /\ last' = Call("runEnemyTurnsEnd", Null, NoCommand, Verdict(TRUE, ""), world, world)
    /\ UNCHANGED <<party, templates, battlesById, partyByBattleId>>
    /\ UNCHANGED serverVars

NextPlay ==
    \/ PlayCreateBattle
    \/ \E command \in PlayCommands : PlayExecuteCommand(command)
    \/ PlayAdvanceTurn
    \/ RunEnemyTurns
    \/ EnemyTurn
    \/ EnemyTurnsEnd

SpecPlay == InitPlay /\ [][NextPlay]_vars

(***************************************************************************)
(* The server: one connected player with the party of the session          *)
(* (createPlayerForConnection) and the enemies of the overworld.  Every    *)
(* action is the handler of one client message, run to its end; between    *)
(* two actions the server waits for the next message.                      *)
(***************************************************************************)
MaxServerLog == 9

\* buildDefaultSave: hp and maxHp of a new save.
DefaultSaveHp == 20

\* An enemy of worldState.objects; hp and maxHp are not set until the enemy
\* is damaged in the overworld.
EnemyObject(id) == [id |-> id, hp |-> Undefined, maxHp |-> Undefined, engagedBy |-> Null]

EnemyObjectIds == {"e1", "e2"}

\* The hp values a client pushes with its save.
PushedHps == {0, DefaultSaveHp}

\* The commands the client sends during a battle.
ServerCommands ==
    { Command("c1", t, "basic_attack") : t \in EnemyObjectIds }
        \cup { Command(Null, "c1", "defend"), Command("c1", "c1", "flee") }

makeEnemyFromWorldObject(o) ==
    LET hp == IF IsNumber(o.hp) THEN o.hp ELSE 14
        maxHp == IF IsNumber(o.maxHp) THEN o.maxHp ELSE hp
    IN  Unit(o.id, "Enemy", "NULL", <<>>, Stats(hp, maxHp, 0, 0, 4, 3, 2, 3, 3))

\* party.activeMember: activeMemberIndex is 0 throughout.
activeMember(p) == p.members[1]

\* member.stats.hp = p.save.hp; member.stats.maxHp = p.save.maxHp
mirrorSave(p, save) ==
    [p EXCEPT !.members[1].stats.hp = save.hp, !.members[1].stats.maxHp = save.maxHp]

syncPartyToPlayerSave(pl, p) ==
    IF p.members = <<>> THEN pl
    ELSE [pl EXCEPT !.save.hp = IF IsNumber(activeMember(p).stats.hp)
                                 THEN activeMember(p).stats.hp ELSE @,
                    !.save.maxHp = IF IsNumber(activeMember(p).stats.maxHp)
                                    THEN activeMember(p).stats.maxHp ELSE @]

\* The cleanup of the BATTLE_COMMAND handler once the battle has ended: the
\* enemy is unlocked, and removed from the overworld on victory.
releaseEnemy_victoryOnly(objs, enemyId, state) ==
    IF state = "victory" THEN SelectSeq(objs, LAMBDA o : o.id # enemyId) ELSE objs

releaseEnemy(objs, enemyId, state) ==
    IF state = "victory"
    THEN SelectSeq(objs, LAMBDA o : o.id # enemyId)
    ELSE [i \in DOMAIN objs |->
            IF objs[i].id = enemyId THEN [objs[i] EXCEPT !.engagedBy = Null] ELSE objs[i]]

\* createPlayerForConnection: the player and the party of a new connection.
\* Player ids are drawn afresh; no state of a player outlives the connection,
\* and the model names every player OwnerId.
newPlayer ==
    [id |-> OwnerId, save |-> [hp |-> DefaultSaveHp, maxHp |-> DefaultSaveHp],
     activeBattleId |-> Null, activeBattleEnemyId |-> Null]

newParty == [Party(<<Protagonist>>) EXCEPT !.currentState = "overworld"]

\* The party of a connection that was closed: deleted from partiesById.
NoParty == [Party(<<>>) EXCEPT !.currentState = "overworld"]

InitServer ==
    /\ party = newParty
    /\ templates = <<>>
    /\ battlesById = <<>>
    /\ partyByBattleId = <<>>
    /\ last = Idle
    /\ player = newPlayer
    /\ objects = <<EnemyObject("e1"), EnemyObject("e2")>>

connected == player.id # Null

\* battlesById.delete(battleId); partyByBattleId.delete(battleId)
without(table, battleId) ==
    IF DOMAIN table \subseteq {battleId} THEN <<>>
    ELSE [id \in DOMAIN table \ {battleId} |-> table[id]]

\* BATTLE_ENGAGE goes on for a player who is in no battle.
engageAllowed_always(pl) == TRUE

engageAllowed(pl) == pl.activeBattleId = Null

\* BATTLE_ENGAGE: ignored for a player in a battle and for an enemy that is
\* not in the overworld.
BattleEngage(enemyId) ==
    /\ connected
    /\ IF ~engageAllowed(player) \/ ~(\E i \in DOMAIN objects : objects[i].id = enemyId)
       THEN /\ last' = Call("battleEngage", player.id, NoCommand, Verdict(FALSE, ""), world, world)
            /\ UNCHANGED <<party, templates, battlesById, partyByBattleId, player, objects>>
       ELSE \E i \in DOMAIN objects :
              /\ objects[i].id = enemyId
              /\ \A j \in 1..(i - 1) : objects[j].id # enemyId
              /\ LET mirrored == [mirrorSave(party, player.save) EXCEPT !.currentState = "battle"]
                     enemies == <<makeEnemyFromWorldObject(objects[i])>>
                     b == createBattle(mirrored, enemies)
                 IN  /\ objects' = [objects EXCEPT ![i].engagedBy = player.id]
                     /\ party' = mirrored
                     /\ templates' = enemies
                     /\ battlesById' = IF stored THEN battlesById @@ (b.id :> b) ELSE (b.id :> b)
                     /\ partyByBattleId' = IF stored THEN partyByBattleId @@ (b.id :> mirrored.id)
                                           ELSE (b.id :> mirrored.id)
                     /\ player' = [player EXCEPT !.activeBattleId = b.id,
                                                 !.activeBattleEnemyId = enemyId]
                     /\ last' = Call("battleEngage", player.id, NoCommand, Verdict(TRUE, ""),
                                      world, World(b, mirrored))

\* BATTLE_COMMAND, for the battle the player is in.
BattleCommandMessage(command) ==
    /\ connected
    /\ player.activeBattleId # Null
    /\ player.activeBattleId \in DOMAIN battlesById
    /\ Len(battle.log) < MaxServerLog
    /\ LET verdict == validateBattleCommand(world, player.id, normalize(command))
           w == submitCommand(world, player.id, normalize(command))
       IN  /\ last' = Call("battleCommandMessage", player.id, normalize(command), verdict, world, w)
           /\ IF ~verdict.ok
              THEN store(w) /\ UNCHANGED serverVars
              ELSE IF w.battle.state \in {"victory", "defeat"}
              THEN /\ battlesById' = without(battlesById, w.battle.id)
                   /\ partyByBattleId' = without(partyByBattleId, w.battle.id)
                   /\ party' = [w.party EXCEPT !.currentState = "overworld"]
                   /\ templates' = shareWithTemplates(w.battle.enemies)
                   /\ player' = [syncPartyToPlayerSave(player, w.party)
                                    EXCEPT !.activeBattleId = Null, !.activeBattleEnemyId = Null]
                   /\ objects' = releaseEnemy(objects, player.activeBattleEnemyId, w.battle.state)
              ELSE /\ store(w)
                   /\ player' = syncPartyToPlayerSave(player, w.party)
                   /\ UNCHANGED objects

\* SAVE_PUSH with an hp in the save: the save takes it and the active member
\* of the party is set to the hp and maxHp of the save.
SavePush(hp) ==
    /\ connected
    /\ player' = [player EXCEPT !.save.hp = hp]
    /\ party' = mirrorSave(party, [player.save EXCEPT !.hp = hp])
    /\ last' = Call("savePush", player.id, NoCommand, Verdict(TRUE, ""), world,
                     World(battle, mirrorSave(party, [player.save EXCEPT !.hp = hp])))
    /\ UNCHANGED <<templates, battlesById, partyByBattleId, objects>>

\* The connection is closed: cleanupConnection forgets the player and the
\* party, and the handler deletes the active battle of the player.
Disconnect ==
    /\ connected
    /\ battlesById' = IF player.activeBattleId # Null
                      THEN without(battlesById, player.activeBattleId) ELSE battlesById
    /\ partyByBattleId' = IF player.activeBattleId # Null
                          THEN without(partyByBattleId, player.activeBattleId) ELSE partyByBattleId
    /\ player' = NoSession
    /\ party' = NoParty
    /\ templates' = <<>>
    /\ last' = Call("close", player.id, NoCommand, Verdict(TRUE, ""), world, World(NoBattle, NoParty))
    /\ UNCHANGED objects

\* PLAYER_CONNECT on a new connection.
Connect ==
    /\ ~connected
    /\ player' = newPlayer
    /\ party' = newParty
    /\ last' = Call("playerConnect", OwnerId, NoCommand, Verdict(TRUE, ""), world,
                     World(battle, newParty))
    /\ UNCHANGED <<templates, battlesById, partyByBattleId, objects>>

NextServer ==
    \/ \E enemyId \in EnemyObjectIds : BattleEngage(enemyId)
    \/ \E command \in ServerCommands : BattleCommandMessage(command)
    \/ \E hp \in PushedHps : SavePush(hp)
    \/ Disconnect
    \/ Connect

SpecServer == InitServer /\ [][NextServer]_vars

(***************************************************************************)
(* The server with two connections.  playersById and partiesById hold a    *)
(* player and a party for each: the variables player and party are here    *)
(* those maps, from the id of the player.  The handlers are the ones above,*)
(* run for the player p of the connection the message came on.             *)
(***************************************************************************)
\* A command is handled while the log of its battle has fewer than
\* MaxLockLog lines.
MaxLockLog == 4

PlayerIds == {OwnerId, "player2"}

\* createPlayerForConnection for the player with the id: partyId is
\* party_<playerId>.
sessionOf(pid) == [newPlayer EXCEPT !.id = pid]

partyOf(pid) == [newParty EXCEPT !.id = "party_" \o pid, !.playerId = pid]

\* The battle of the player and the party of the player.
worldOf(pid) ==
    World(IF player[pid].activeBattleId \in DOMAIN battlesById
          THEN battlesById[player[pid].activeBattleId] ELSE NoBattle,
          party[pid])

InitLock ==
    /\ player = [pid \in PlayerIds |-> sessionOf(pid)]
    /\ party = [pid \in PlayerIds |-> partyOf(pid)]
    /\ templates = <<>>
    /\ battlesById = <<>>
    /\ partyByBattleId = <<>>
    /\ last = Idle
    /\ objects = <<EnemyObject("e1"), EnemyObject("e2")>>

\* BATTLE_ENGAGE from the connection of pid.
Engage(pid, enemyId) ==
    IF ~engageAllowed(player[pid]) \/ ~(\E i \in DOMAIN objects : objects[i].id = enemyId)
    THEN /\ last' = Call("battleEngage", pid, NoCommand, Verdict(FALSE, ""), worldOf(pid), worldOf(pid))
         /\ UNCHANGED <<party, templates, battlesById, partyByBattleId, player, objects>>
    ELSE \E i \in DOMAIN objects :
           /\ objects[i].id = enemyId
           /\ \A j \in 1..(i - 1) : objects[j].id # enemyId
           /\ LET mirrored == [mirrorSave(party[pid], player[pid].save) EXCEPT !.currentState = "battle"]
                  b == createBattle(mirrored, <<makeEnemyFromWorldObject(objects[i])>>)
              IN  /\ objects' = [objects EXCEPT ![i].engagedBy = pid]
                  /\ party' = [party EXCEPT ![pid] = mirrored]
                  /\ battlesById' = IF stored THEN battlesById @@ (b.id :> b) ELSE (b.id :> b)
                  /\ partyByBattleId' = IF stored THEN partyByBattleId @@ (b.id :> mirrored.id)
                                        ELSE (b.id :> mirrored.id)
                  /\ player' = [player EXCEPT ![pid].activeBattleId = b.id,
                                              ![pid].activeBattleEnemyId = enemyId]
                  /\ last' = Call("battleEngage", pid, NoCommand, Verdict(TRUE, ""),
                                   worldOf(pid), World(b, mirrored))
                  /\ UNCHANGED templates

\* BATTLE_COMMAND from the connection of pid, for the battle pid is in.
CommandMessage(pid, command) ==
    /\ player[pid].activeBattleId \in DOMAIN battlesById
    /\ Len(worldOf(pid).battle.log) < MaxLockLog
    /\ LET normalized == [command EXCEPT !.sourceId =
                             IF IsString(@) THEN @ ELSE activeRefOf(worldOf(pid).battle).id]
           verdict == validateBattleCommand(worldOf(pid), pid, normalized)
           w == submitCommand(worldOf(pid), pid, normalized)
       IN  /\ last' = Call("battleCommandMessage", pid, normalized, verdict, worldOf(pid), w)
           /\ IF ~verdict.ok
              THEN /\ battlesById' = [battlesById EXCEPT ![w.battle.id] = w.battle]
                   /\ UNCHANGED <<party, partyByBattleId, player, objects>>
              ELSE IF w.battle.state \in {"victory", "defeat"}
              THEN /\ battlesById' = without(battlesById, w.battle.id)
                   /\ partyByBattleId' = without(partyByBattleId, w.battle.id)
                   /\ party' = [party EXCEPT ![pid] = [w.party EXCEPT !.currentState = "overworld"]]
                   /\ player' = [player EXCEPT ![pid] =
                                    [syncPartyToPlayerSave(player[pid], w.party)
                                        EXCEPT !.activeBattleId = Null, !.activeBattleEnemyId = Null]]
                   /\ objects' = releaseEnemy(objects, player[pid].activeBattleEnemyId, w.battle.state)
              ELSE /\ battlesById' = [battlesById EXCEPT ![w.battle.id] = w.battle]
                   /\ party' = [party EXCEPT ![pid] = w.party]
                   /\ player' = [player EXCEPT ![pid] = syncPartyToPlayerSave(player[pid], w.party)]
                   /\ UNCHANGED <<partyByBattleId, objects>>
    /\ UNCHANGED templates

NextLock ==
    \/ \E pid \in PlayerIds : \E enemyId \in EnemyObjectIds : Engage(pid, enemyId)
    \/ \E pid \in PlayerIds : \E command \in ServerCommands : CommandMessage(pid, command)

SpecLock == InitLock /\ [][NextLock]_vars

(***************************************************************************)
(* Properties of the scheduler.                                            *)
(***************************************************************************)
occurrences(order, ref) == Cardinality({k \in DOMAIN order : order[k] = ref})

hasHp(unit) == IsNumber(unit.stats.hp) /\ unit.stats.hp > 0

listOf(kind) == IF kind = "party" THEN party.members ELSE templates

speedOfRef(ref) ==
    LET list == listOf(ref.kind)
        unit == list[CHOOSE i \in DOMAIN list : list[i].id = ref.id]
    IN  IF IsNumber(unit.stats.speed) THEN unit.stats.speed ELSE 0

\* a is due before b: faster, or as fast with the smaller tie key
\* ("e_" + id sorts before "p_" + id, and equal prefixes sort by id).
dueBefore(a, b) ==
    \/ speedOfRef(a) > speedOfRef(b)
    \/ /\ speedOfRef(a) = speedOfRef(b)
       /\ \/ a.kind = "enemy" /\ b.kind = "party"
          \/ a.kind = b.kind /\ IdRank(a.id) < IdRank(b.id)

permuted(list, f) == [i \in DOMAIN list |-> list[f[i]]]

\* C1: calculateInitialTurnOrder returns exactly one TurnRef for every party
\* member and every enemy with hp > 0 and none for a unit with hp <= 0, in
\* order of descending speed with ties in ascending order of the tie key, and
\* returns the same sequence for every permutation of the two input lists.
InitialOrderIsTheAliveUnitsBySpeed ==
    last.op = "calculateInitialTurnOrder" =>
        /\ \A kind \in {"party", "enemy"} : \A i \in DOMAIN listOf(kind) :
              occurrences(last.order, TurnRef(kind, listOf(kind)[i].id))
                  = IF hasHp(listOf(kind)[i]) THEN 1 ELSE 0
        /\ \A k \in DOMAIN last.order :
              \E i \in DOMAIN listOf(last.order[k].kind) :
                  listOf(last.order[k].kind)[i].id = last.order[k].id
        /\ \A k \in 1..(Len(last.order) - 1) : dueBefore(last.order[k], last.order[k + 1])
        /\ \A f \in Permutations(DOMAIN party.members), g \in Permutations(DOMAIN templates) :
              calculateInitialTurnOrder(permuted(party.members, f), permuted(templates, g))
                  = last.order

\* An order of three with a dead unit left out, a tie between an enemy and a
\* member broken by the key, and a faster unit ahead of both.
InitialOrderWitness ==
    /\ last.op = "calculateInitialTurnOrder"
    /\ Len(last.order) = 3
    /\ \E i \in DOMAIN party.members : ~hasHp(party.members[i])
    /\ \E k \in 1..2 :
          /\ last.order[k].kind = "enemy"
          /\ last.order[k + 1].kind = "party"
          /\ speedOfRef(last.order[k]) = speedOfRef(last.order[k + 1])
    /\ \E k \in 1..2 : speedOfRef(last.order[k]) > speedOfRef(last.order[k + 1])

(***************************************************************************)
(* Properties of the command validator.                                    *)
(***************************************************************************)
\* The last call ran validateBattleCommand on last.command against last.pre.
validated == last.op \in {"validateBattleCommand", "battleCommand"}

\* C2: a command whose sourceId is not the id of the turn reference at
\* activeTurnIndex is answered ok:false by validateBattleCommand, and the
\* check leaves the battle and the party as they were.
WrongSourceIsRejected ==
    /\ validated /\ last.command.sourceId # activeRefOf(last.pre.battle).id
           => ~last.verdict.ok
    /\ last.op = "validateBattleCommand"
           => world = last.pre /\ last.post = last.pre

\* A command of the owner with a known ability and a target in the battle,
\* turned down only because its source is not the active unit.
WrongSourceWitness ==
    /\ last.op = "validateBattleCommand"
    /\ last.playerId = OwnerId
    /\ activeRefOf(last.pre.battle) = TurnRef("party", "c1")
    /\ last.command = Command("c2", "e1", "basic_attack")
    /\ unitById(last.pre, "c2") # NotFound
    /\ last.verdict = Verdict(FALSE, "invalid source for active turn")
    /\ world = last.pre

\* C3: validateBattleCommand answers ok:true only if the battle is
\* in_progress, its turnOrder is non-empty, the active turn reference is of
\* kind party and the party of the battle belongs to the acting player.
AcceptedOnlyOnOwnTurn ==
    validated /\ last.verdict.ok =>
        /\ last.pre.battle.state = "in_progress"
        /\ Len(last.pre.battle.turnOrder) > 0
        /\ last.pre.battle.turnOrder[(last.pre.battle.activeTurnIndex
                                        % Len(last.pre.battle.turnOrder)) + 1].kind = "party"
        /\ last.pre.party.playerId = last.playerId

\* A command accepted on the second member's turn, after the turn has moved on.
AcceptedWitness ==
    /\ last.op = "validateBattleCommand"
    /\ last.verdict.ok
    /\ last.pre.battle.activeTurnIndex > 0
    /\ last.command.sourceId = "c2"

\* The line the executor logs when the source cannot pay for the ability.
lacksMpLines(w, command) ==
    IF knownAbility(command.abilityId) /\ unitById(w, command.sourceId) # NotFound
    THEN LET name == getUnitName(unitOf(w, unitById(w, command.sourceId)))
             ability == ABILITIES_BY_ID[command.abilityId]
         IN  { name \o " failed to cast " \o ability.name \o ".",
               name \o " tried " \o ability.name \o " but lacked MP." }
    ELSE {}

cannotPay(unit, ability) == ~IsNumber(unit.stats.mp) \/ unit.stats.mp < ability.mpCost

\* C4: validateBattleCommand rejects every command whose ability costs MP
\* when the mp of the source is not a number or is below the cost; so a
\* command that is validated and then executed never takes the executor's
\* insufficient-MP path.
UnaffordableIsRejected ==
    /\ validated /\ knownAbility(last.command.abilityId)
         /\ ABILITIES_BY_ID[last.command.abilityId].mpCost > 0
         /\ unitById(last.pre, last.command.sourceId) # NotFound
         /\ cannotPay(unitOf(last.pre, unitById(last.pre, last.command.sourceId)),
                      ABILITIES_BY_ID[last.command.abilityId])
           => ~last.verdict.ok
    /\ validated /\ last.verdict.ok =>
           LET log == executeCommand(last.pre, last.command).battle.log
           IN  \A k \in (Len(last.pre.battle.log) + 1)..Len(log) :
                   log[k] \notin lacksMpLines(last.pre, last.command)

\* The active member has 0 MP and submits an ability that costs 5.
UnaffordableWitness ==
    /\ last.op = "battleCommand"
    /\ last.command = Command("c1", "c1", "sage_mend")
    /\ unitOf(last.pre, unitById(last.pre, "c1")).stats.mp = 0
    /\ last.verdict = Verdict(FALSE, "not enough MP")

\* C5: validateBattleCommand rejects every command whose ability has target
\* type party or enemy_all, whatever the target id and the battle state, so
\* a submitted command with such an ability has no effect on any unit.
GroupTargetIsRejected ==
    validated /\ knownAbility(last.command.abilityId)
        /\ ABILITIES_BY_ID[last.command.abilityId].targetType \in {"party", "enemy_all"}
      => /\ ~last.verdict.ok
         /\ last.post.party = last.pre.party
         /\ last.post.battle.enemies = last.pre.battle.enemies

\* Gale Sweep submitted for the active member, who can pay for it, at a
\* living enemy.
GroupTargetWitness ==
    /\ last.op = "battleCommand"
    /\ last.command = Command("c1", "e1", "aeromancer_gale_sweep")
    /\ unitOf(last.pre, unitById(last.pre, "c1")).stats.mp >= 6
    /\ unitById(last.pre, "e1") # NotFound
    /\ last.verdict = Verdict(FALSE, "unsupported target type")

\* C6: when a submitted command is rejected, no hp, mp, status effect,
\* turnOrder, activeTurnIndex or state changes and no enemy turn is run; the
\* one effect on the battle is a rejection line at the end of the log.
RejectionOnlyLogs ==
    last.op = "battleCommand" /\ ~last.verdict.ok =>
        /\ last.post.party = last.pre.party
        /\ last.post.battle.enemies = last.pre.battle.enemies
        /\ last.post.battle.turnOrder = last.pre.battle.turnOrder
        /\ last.post.battle.activeTurnIndex = last.pre.battle.activeTurnIndex
        /\ last.post.battle.state = last.pre.battle.state
        /\ Len(last.post.battle.log) = Len(last.pre.battle.log) + 1
        /\ SubSeq(last.post.battle.log, 1, Len(last.pre.battle.log)) = last.pre.battle.log
        /\ last.post.battle.log[Len(last.post.battle.log)]
               = "Invalid command: " \o last.verdict.reason \o "."
        /\ world = last.post

\* A command rejected while an enemy is the active unit: the enemy's turn
\* is not run.
RejectionWitness ==
    /\ last.op = "battleCommand"
    /\ last.verdict = Verdict(FALSE, "not player turn")
    /\ activeRefOf(last.pre.battle).kind = "enemy"
    /\ activeRefOf(world.battle) = activeRefOf(last.pre.battle)
    /\ world.battle.log[Len(world.battle.log)] = "Invalid command: not player turn."

(***************************************************************************)
(* Properties of the command executor.                                     *)
(***************************************************************************)
\* executeCommand gets as far as the effect of the ability: the battle is
\* in_progress, the ability is known and is not flee, the source is the
\* active unit, source and target are in the battle and the source can pay.
resolves(w, command) ==
    /\ w.battle.state = "in_progress"
    /\ knownAbility(command.abilityId)
    /\ command.abilityId # "flee"
    /\ Len(w.battle.turnOrder) > 0
    /\ activeRefOf(w.battle).id = command.sourceId
    /\ findUnitInBattle(w, command.sourceId) # NotFound
    /\ findUnitInBattle(w, command.targetId) # NotFound
    /\ ~(ABILITIES_BY_ID[command.abilityId].mpCost > 0
           /\ cannotPay(unitOf(w, findUnitInBattle(w, command.sourceId)),
                        ABILITIES_BY_ID[command.abilityId]))

lastAbility == ABILITIES_BY_ID[last.command.abilityId]
sourceBefore == unitOf(last.pre, findUnitInBattle(last.pre, last.command.sourceId)).stats
targetBefore == unitOf(last.pre, findUnitInBattle(last.pre, last.command.targetId)).stats
targetAfter == unitOf(last.post, findUnitInBattle(last.pre, last.command.targetId)).stats

heals(ability) == ability.targetType \in {"ally_single", "party", "self"}

\* hp held to at most maxHp, where maxHp is a number.
capped(hp, maxHp) == IF IsNumber(maxHp) /\ hp > maxHp THEN maxHp ELSE hp

\* floor((tenths / 10) * (hundredths / 100)), at least 1.
atLeastOne(tenths, hundredths) == Max(1, (tenths * hundredths) \div 1000)

\* C7: an ability with power > 0, element NULL and a non-healing target type
\* leaves the target at max(0, hp - max(1, floor((strength + power -
\* defense * 0.6) * mult))), held to at most maxHp; mult is 1 for NULL.
PhysicalDamageFormula ==
    last.op = "executeCommand" /\ resolves(last.pre, last.command)
        /\ lastAbility.power > 0 /\ lastAbility.element = "NULL" /\ ~heals(lastAbility)
        /\ IsNumber(targetBefore.hp)
      => targetAfter.hp =
            capped(Max(0, targetBefore.hp
                          - atLeastOne(10 * (numberOr0(sourceBefore.strength) + lastAbility.power)
                                          - 6 * numberOr0(targetBefore.defense), 100)),
                   targetBefore.maxHp)

\* Strength 10 and power 4 against defense 0 and hp 20 leave hp 6.
PhysicalDamageWitness ==
    /\ last.op = "executeCommand"
    /\ last.command = Command("c1", "e1", "basic_attack")
    /\ resolves(last.pre, last.command)
    /\ sourceBefore.strength = 10 /\ targetBefore.defense = 0 /\ targetBefore.hp = 20
    /\ world.battle.enemies[1].stats.hp = 6

HealingFormula ==
    last.op = "executeCommand" /\ resolves(last.pre, last.command)
        /\ lastAbility.power > 0 /\ heals(lastAbility) /\ IsNumber(targetBefore.hp)
      => /\ targetAfter.hp =
               capped(targetBefore.hp
                        + atLeastOne(10 * lastAbility.power + 11 * numberOr0(sourceBefore.magic),
                                     elementalMultiplier(lastAbility.element,
                                         getUnitElement(unitOf(last.pre,
                                             findUnitInBattle(last.pre, last.command.targetId))))),
                      targetBefore.maxHp)
         /\ IsNumber(targetBefore.maxHp) => targetAfter.hp <= targetBefore.maxHp
         /\ IsNumber(targetBefore.maxHp) /\ 0 <= targetBefore.hp
                /\ targetBefore.hp <= targetBefore.maxHp
              => targetAfter.hp >= targetBefore.hp

\* Mend from magic 10 lifts an ally from 5 of 30 hp to 28.
HealingWitness ==
    /\ last.op = "executeCommand"
    /\ last.command = Command("c1", "c2", "sage_mend")
    /\ resolves(last.pre, last.command)
    /\ sourceBefore.magic = 10 /\ targetBefore.hp = 5 /\ targetBefore.maxHp = 30
    /\ world.party.members[2].stats.hp = 28

\* The mp of every unit of w, members first.
mpOf(w) ==
    [i \in DOMAIN w.party.members |-> w.party.members[i].stats.mp]
        \o [i \in DOMAIN w.battle.enemies |-> w.battle.enemies[i].stats.mp]

sourcePosition ==
    LET h == findUnitInBattle(last.pre, last.command.sourceId)
    IN  IF h.kind = "party" THEN h.idx ELSE Len(last.pre.party.members) + h.idx

\* C10: a resolved command whose ability costs MP lowers the mp of the
\* source by exactly mpCost, never below 0, and changes the mp of no other
\* combatant; a resolved command whose ability costs nothing changes no mp.
MpCostIsPaidOnce ==
    (last.op = "executeCommand" \/ (last.op = "battleCommand" /\ last.verdict.ok))
        /\ resolves(last.pre, last.command)
      => /\ mpOf(last.post) =
               (IF lastAbility.mpCost > 0
                THEN [mpOf(last.pre) EXCEPT ![sourcePosition] = @ - lastAbility.mpCost]
                ELSE mpOf(last.pre))
         /\ lastAbility.mpCost > 0 => mpOf(last.post)[sourcePosition] >= 0

\* A submitted Mend takes the caster from 10 mp to 5 and leaves the mp of
\* the ally and of the enemy alone.
MpCostWitness ==
    /\ last.op = "battleCommand"
    /\ last.verdict.ok
    /\ last.command.abilityId = "sage_mend"
    /\ mpOf(last.pre)[1] = 10
    /\ mpOf(last.post)[1] = 5
    /\ Len(mpOf(last.post)) >= 3

(***************************************************************************)
(* Properties of the lifecycle.                                            *)
(***************************************************************************)
someAlive(list) == \E i \in DOMAIN list : hasHp(list[i])

\* The last call ran recomputeState on the battle it left: a command that
\* executeCommand resolved, or an advanceTurn of a battle in progress that had
\* a unit left to schedule.
recomputed ==
    \/ last.op = "executeCommand" /\ resolves(last.pre, last.command)
    \/ /\ last.op = "advanceTurn"
       /\ last.pre.battle.state = "in_progress"
       /\ Len(pruneDeadFromTurnOrder(last.pre).battle.turnOrder) > 0

\* C13: the state recomputeState yields is defeat whenever no party member
\* has hp > 0, also when no enemy has hp > 0 either; it is victory only when
\* some party member is alive and no enemy is, and in_progress only when both
\* sides have a living combatant.
RecomputedStateFollowsTheLiving ==
    recomputed =>
        /\ ~someAlive(last.post.party.members) => last.post.battle.state = "defeat"
        /\ last.post.battle.state = "victory"
               => someAlive(last.post.party.members) /\ ~someAlive(last.post.battle.enemies)
        /\ last.post.battle.state = "in_progress"
               => someAlive(last.post.party.members) /\ someAlive(last.post.battle.enemies)
        /\ last.post.battle.state \in {"defeat", "victory", "in_progress"}

\* The last member alive strikes itself down where no enemy is alive: both
\* sides are wiped out by the same action and the battle is lost.
MutualKnockoutWitness ==
    /\ last.op = "executeCommand"
    /\ resolves(last.pre, last.command)
    /\ someAlive(last.pre.party.members)
    /\ ~someAlive(last.post.party.members)
    /\ ~someAlive(last.post.battle.enemies)
    /\ world.battle.state = "defeat"

\* What a log line calls a unit: its name, its id when it has no name, and
\* "Unknown" when the command names no unit of the battle.
labelOf(w, unitId) ==
    IF findUnitInBattle(w, unitId) = NotFound THEN "Unknown"
    ELSE LET unit == unitOf(w, findUnitInBattle(w, unitId))
         IN  IF unit.name # "" THEN unit.name ELSE unit.id

\* C14: executeCommand with abilityId "flee" on a battle in progress sets
\* the state to defeat, whatever the hp of either side and whoever the source
\* is, appends one log line that names the fleeing unit, and changes no hp,
\* mp, status set, turnOrder or activeTurnIndex.
FleeAlwaysEndsInDefeat ==
    last.op = "executeCommand" /\ last.command.abilityId = "flee"
        /\ last.pre.battle.state = "in_progress"
      => /\ last.post.battle.state = "defeat"
         /\ last.post.battle.log =
               Append(last.pre.battle.log, labelOf(last.pre, last.command.sourceId) \o " fled.")
         /\ last.post.party = last.pre.party
         /\ last.post.battle.enemies = last.pre.battle.enemies
         /\ last.post.battle.turnOrder = last.pre.battle.turnOrder
         /\ last.post.battle.activeTurnIndex = last.pre.battle.activeTurnIndex
         /\ world = last.post

\* An enemy flees on a member's turn while both sides are alive: the battle
\* is lost all the same.
FleeWitness ==
    /\ last.op = "executeCommand"
    /\ last.command = Command("e1", "c1", "flee")
    /\ last.pre.battle.state = "in_progress"
    /\ activeRefOf(last.pre.battle) = TurnRef("party", "c1")
    /\ someAlive(last.pre.party.members) /\ someAlive(last.pre.battle.enemies)
    /\ findUnitInBattle(last.pre, "e1") # NotFound
    /\ world.battle.state = "defeat"
    /\ world.battle.log[Len(world.battle.log)] = "Goblin fled."

\* C18: createBattle never returns or stores a battle in state pending: the
\* battle it creates is in_progress with activeTurnIndex 0 when a combatant
\* of either side has hp > 0, and defeat when none has; the battle is stored
\* under its id and the side table maps that id to the party of the caller,
\* not to a copy.
CreatedBattleHasStarted ==
    last.op = "createBattle" =>
        /\ last.post.battle.state # "pending"
        /\ last.post.battle.state =
              (IF someAlive(last.pre.party.members) \/ someAlive(templates)
               THEN "in_progress" ELSE "defeat")
        /\ last.post.battle.activeTurnIndex = 0
        /\ last.post.battle.id \in DOMAIN battlesById
        /\ battlesById[last.post.battle.id] = last.post.battle
        /\ last.post.battle.id \in DOMAIN partyByBattleId
        /\ partyByBattleId[last.post.battle.id] = party.id
        /\ last.post.party = party
        /\ world = last.post

\* A battle created for a party without a living member against a living
\* enemy: in progress, with the enemy to act.
CreatedBattleWitness ==
    /\ last.op = "createBattle"
    /\ ~someAlive(party.members)
    /\ someAlive(templates)
    /\ battle.state = "in_progress"
    /\ battle.activeTurnIndex = 0
    /\ activeRefOf(battle).kind = "enemy"
    /\ partyByBattleId[battle.id] = party.id

\* The units of w, members first.
unitsOf(w) == w.party.members \o w.battle.enemies

withinHp(stats) ==
    IsNumber(stats.hp) /\ IsNumber(stats.maxHp) => 0 <= stats.hp /\ stats.hp <= stats.maxHp

withinMp(stats) ==
    IsNumber(stats.mp) /\ IsNumber(stats.maxMp) => 0 <= stats.mp /\ stats.mp <= stats.maxMp

\* C16 as claimed: after a command that the executor resolved, every combatant
\* whose stats the executor changed has 0 <= hp <= maxHp and 0 <= mp <= maxMp, also
\* when it entered the action with hp > maxHp or mp > maxMp.
ChangedStatsAreWithinBounds ==
    last.op = "executeCommand" /\ resolves(last.pre, last.command) =>
        \A i \in DOMAIN unitsOf(last.post) :
            unitsOf(last.post)[i].stats # unitsOf(last.pre)[i].stats
                => withinHp(unitsOf(last.post)[i].stats) /\ withinMp(unitsOf(last.post)[i].stats)

\* C16, amended: a resolved command whose ability has power > 0 leaves its
\* target with 0 <= hp <= maxHp, also when the target entered with
\* hp > maxHp; the mp it changes is lowered and stays at 0 or above, and
\* nothing holds mp to maxMp or the hp of the source to its maxHp.
TargetHpIsClamped ==
    last.op = "executeCommand" /\ resolves(last.pre, last.command) =>
        /\ lastAbility.power > 0 => withinHp(targetAfter)
        /\ \A i \in DOMAIN unitsOf(last.post) :
              unitsOf(last.post)[i].stats.mp # unitsOf(last.pre)[i].stats.mp
                  => /\ 0 <= unitsOf(last.post)[i].stats.mp
                     /\ unitsOf(last.post)[i].stats.mp < unitsOf(last.pre)[i].stats.mp

\* A member who entered with 25 hp of at most 20 is mended and leaves with 20.
ClampedTargetWitness ==
    /\ last.op = "executeCommand"
    /\ resolves(last.pre, last.command)
    /\ lastAbility.power > 0
    /\ heals(lastAbility)
    /\ targetBefore.hp > targetBefore.maxHp
    /\ targetAfter.hp = targetBefore.maxHp
    /\ sourceBefore.mp > unitOf(last.post, findUnitInBattle(last.pre, last.command.sourceId)).stats.mp

\* The units of the last call paired before and after it carry the same tags
\* as often, but for the tag `added` of unit `at`.
tagsKept(added, at) ==
    \A i \in DOMAIN unitsOf(last.pre) :
        \A tag \in {"POISON", "WEAKEN"} :
            occurrences(unitsOf(last.post)[i].statusEffects, tag) =
                (IF i = at /\ tag = added
                 THEN 1
                 ELSE occurrences(unitsOf(last.pre)[i].statusEffects, tag))

targetPosition ==
    LET h == findUnitInBattle(last.pre, last.command.targetId)
    IN  IF h.kind = "party" THEN h.idx ELSE Len(last.pre.party.members) + h.idx

\* C11: after an executed ability that carries a statusEffect tag, however
\* often it has been executed on the target before, the status effects of the
\* target hold that tag exactly once; the tags that were there are neither
\* removed nor repeated, and no other unit gains or loses a tag.
StatusIsAppliedOnce ==
    last.op = "executeCommand" =>
        IF resolves(last.pre, last.command) /\ lastAbility.statusEffect # ""
        THEN tagsKept(lastAbility.statusEffect, targetPosition)
        ELSE tagsKept("", 0)

\* Venom Hex is executed a third time on an enemy that carries POISON from
\* the executions before: it carries POISON once afterwards.
StatusThriceWitness ==
    /\ last.op = "executeCommand"
    /\ last.command = Command("c1", "e1", "umbramancer_venom_hex")
    /\ resolves(last.pre, last.command)
    /\ sourceBefore.mp = 4
    /\ last.pre.battle.enemies[1].statusEffects = <<"POISON">>
    /\ world.battle.enemies[1].statusEffects = <<"POISON">>

endLines(log) == occurrences(log, "Victory!") + occurrences(log, "Defeat.")

\* C12: a resolved command that leaves no enemy with hp > 0 and some party
\* member with hp > 0 sets the state to victory and appends exactly one
\* "Victory!" line, after its action line; and whatever is called on a battle,
\* advanceTurn and the enemy turns included, its log never holds more than one
\* "Victory!" or "Defeat." line.
VictoryIsLoggedOnce ==
    /\ last.op = "executeCommand" /\ resolves(last.pre, last.command)
           /\ ~someAlive(last.post.battle.enemies) /\ someAlive(last.post.party.members)
         => /\ last.post.battle.state = "victory"
            /\ Len(last.post.battle.log) = Len(last.pre.battle.log) + 2
            /\ SubSeq(last.post.battle.log, 1, Len(last.pre.battle.log)) = last.pre.battle.log
            /\ last.post.battle.log[Len(last.post.battle.log)] = "Victory!"
            /\ occurrences(last.post.battle.log, "Victory!") = 1
    /\ endLines(battle.log) <= 1

\* The turn of a battle that was won is advanced: its log holds the one
\* "Victory!" line the winning command appended.
VictoryWitness ==
    /\ last.op = "advanceTurn"
    /\ last.pre.battle.state = "victory"
    /\ last.pre.battle.log[Len(last.pre.battle.log)] = "Victory!"
    /\ ~someAlive(battle.enemies) /\ someAlive(party.members)
    /\ endLines(battle.log) = 1

ended(b) == b.state \in {"victory", "defeat"}

\* C15: victory and defeat are absorbing: once the state of a battle is
\* victory or defeat, every call of executeCommand, advanceTurn and
\* runEnemyTurns leaves the battle (state, log, turnOrder, activeTurnIndex,
\* enemies) and the party as they are; the state never goes back to pending
\* or in_progress.
EndedBattleIsLeftAlone ==
    [][ended(battle) => battle' = battle /\ party' = party]_vars

\* The member whose turn it is attacks a living enemy after the party has
\* fled: nothing changes.
EndedBattleWitness ==
    /\ last.op = "executeCommand"
    /\ last.command = Command("c1", "e1", "basic_attack")
    /\ last.pre.battle.state = "defeat"
    /\ activeRefOf(last.pre.battle) = TurnRef("party", "c1")
    /\ someAlive(last.pre.party.members) /\ someAlive(last.pre.battle.enemies)
    /\ world = last.pre

\* C17 as claimed: in every state reached through createBattle,
\* executeCommand and advanceTurn, turnOrder is non-empty and activeTurnIndex
\* is an index into it (0 <= activeTurnIndex < length), or turnOrder is empty
\* and the state is victory or defeat.
ActiveTurnIndexIsValid ==
    stored =>
        \/ /\ Len(battle.turnOrder) > 0
           /\ 0 <= battle.activeTurnIndex
           /\ battle.activeTurnIndex < Len(battle.turnOrder)
        \/ Len(battle.turnOrder) = 0 /\ ended(battle)

(***************************************************************************)
(* Properties of the enemy turns.                                          *)
(***************************************************************************)
hpOf(list) == [i \in DOMAIN list |-> list[i].stats.hp]

\* The pass that last.pre, last.command and last.post record struck the
\* member at position i of the party list.
struck(i) ==
    /\ hasHp(last.pre.party.members[i])
    /\ \A j \in 1..(i - 1) : ~hasHp(last.pre.party.members[j])
    /\ last.command.targetId = last.pre.party.members[i].id
    /\ \A j \in DOMAIN last.pre.party.members :
          j # i => last.post.party.members[j].stats.hp = last.pre.party.members[j].stats.hp
    /\ last.post.party.members[i].stats.hp < last.pre.party.members[i].stats.hp

\* The hp the party has left: what the passes of the loop count down.
partyHp(w) == sumHp(w.party.members)

BattleRestsOnPartyTurn ==
    stored /\ battle.state = "in_progress" => activeRefOf(battle).kind = "party"

(***************************************************************************)
(* Properties of the resolution.                                           *)
(***************************************************************************)
targetElementBefore ==
    getUnitElement(unitOf(last.pre, findUnitInBattle(last.pre, last.command.targetId)))

\* The line a resolved command appends for an amount of hp.
lineFor(amount) ==
    actionLine(lastAbility,
               getUnitName(unitOf(last.pre, findUnitInBattle(last.pre, last.command.sourceId))),
               getUnitName(unitOf(last.pre, findUnitInBattle(last.pre, last.command.targetId))),
               amount)

\* The damage of the last command under the multiplier mult, in hundredths.
elementalDamage(mult) ==
    atLeastOne(10 * (numberOr0(sourceBefore.magic) + lastAbility.power)
                   - 6 * numberOr0(targetBefore.spirit), mult)

\* The last command was resolved as damage by an ability whose element is
\* weak to the element of the target.
backfired ==
    /\ last.op = "executeCommand" /\ resolves(last.pre, last.command)
    /\ lastAbility.power > 0 /\ lastAbility.element # "NULL" /\ ~heals(lastAbility)
    /\ targetElementBefore \in ELEMENTS \ {"NULL"}
    /\ ELEMENTAL_WEAKNESS[lastAbility.element] = targetElementBefore

threw == last.op \in {"createBattleThrew", "executeCommandThrew", "advanceTurnThrew"}

\* What a call of the three leaves in the record of the call: it has thrown
\* exactly when it was made at fault, with the message of that fault.
thrownAtFault ==
    /\ last.op \in {"createBattle", "createBattleThrew"} =>
          (last.op = "createBattleThrew" <=> (~IsString(party.id) \/ ~last.enemiesIsArray))
    /\ last.op = "createBattleThrew" =>
          last.verdict.reason = (IF ~IsString(party.id)
                                 THEN "TypeError: createBattle: party must have an id"
                                 ELSE "TypeError: createBattle: enemies must be an array")
    /\ \A fn \in {"executeCommand", "advanceTurn"} :
          /\ last.op \in {fn, fn \o "Threw"} =>
                (last.op = fn \o "Threw" <=> last.pre.battle = NoBattle)
          /\ last.op = fn \o "Threw" =>
                last.verdict.reason = "TypeError: " \o fn \o ": battle is required"
    /\ threw => (~last.verdict.ok /\ last.post = last.pre /\ world = last.pre)

\* C21: createBattle called with a party without a string id or with enemies
\* that are not an array throws a TypeError and leaves the battle store and
\* the side table as they are; executeCommand and advanceTurn called with a
\* missing battle throw and return no battle.  No other call of the three
\* throws.
StructuralMisuseThrows ==
    /\ []thrownAtFault
    /\ [][threw' => UNCHANGED <<party, templates, battlesById, partyByBattleId>>]_vars

\* createBattle is handed something that is not an array while the store
\* holds a battle in progress: it throws, and the battle stays as it is.
StructuralMisuseWitness ==
    /\ last.op = "createBattleThrew"
    /\ IsString(party.id)
    /\ ~last.enemiesIsArray
    /\ stored
    /\ battle.state = "in_progress"
    /\ partyByBattleId[battle.id] = party.id

(***************************************************************************)
(* Properties of a submitted command from validation to resolution.        *)
(***************************************************************************)
sourceNameBefore ==
    getUnitName(unitOf(last.pre, findUnitInBattle(last.pre, last.command.sourceId)))

\* The line the submitted command has left in the log.
submittedLine == last.post.battle.log[Len(last.pre.battle.log) + 1]

\* C25: a validated command whose ability has target type self is resolved
\* on its source, whatever targetId it carries, the id of another unit or
\* none: the action line names the source as the target, or, for flee, the
\* source as the unit that fled, and names no other unit.
SelfTargetIsForcedToSource ==
    last.op = "battleCommand" /\ last.verdict.ok
        /\ ABILITIES_BY_ID[last.command.abilityId].targetType = "self"
      => submittedLine =
            (IF last.command.abilityId = "flee" THEN sourceNameBefore \o " fled."
             ELSE actionLine(lastAbility, sourceNameBefore, sourceNameBefore, 0))

\* C26: the executor rejects the abilities of target type party and
\* enemy_all: executeCommand called with such an ability by the active unit
\* changes no hp, mp or status set of any combatant.
GroupAbilityIsRejectedByExecutor ==
    last.op = "executeCommand" /\ knownAbility(last.command.abilityId)
        /\ ABILITIES_BY_ID[last.command.abilityId].targetType \in {"party", "enemy_all"}
        /\ activeRefOf(last.pre.battle).id = last.command.sourceId
      => /\ last.post.party = last.pre.party
         /\ last.post.battle.enemies = last.pre.battle.enemies

(***************************************************************************)
(* Properties of the executor where it resolves nothing.                   *)
(***************************************************************************)
\* executeCommand takes one of its fail-soft paths: the battle is in
\* progress, the command is no flee and the executor does not get as far as
\* the effect of the ability.
failsSoft(w, command) ==
    /\ w.battle.state = "in_progress"
    /\ command.abilityId # "flee"
    /\ ~resolves(w, command)

\* The line of the path taken, the paths in the order the executor tries them.
failureLine(w, command) ==
    IF ~knownAbility(command.abilityId) THEN "Invalid command: unknown ability."
    ELSE IF Len(w.battle.turnOrder) = 0 \/ activeRefOf(w.battle).id # command.sourceId
    THEN "Invalid command: not active unit."
    ELSE IF findUnitInBattle(w, command.sourceId) = NotFound
            \/ findUnitInBattle(w, command.targetId) = NotFound
    THEN "Invalid command: missing source/target."
    ELSE IF ~IsNumber(unitOf(w, findUnitInBattle(w, command.sourceId)).stats.mp)
    THEN labelOf(w, command.sourceId) \o " failed to cast "
             \o ABILITIES_BY_ID[command.abilityId].name \o "."
    ELSE labelOf(w, command.sourceId) \o " tried "
             \o ABILITIES_BY_ID[command.abilityId].name \o " but lacked MP."

\* C27: on each fail-soft path of executeCommand (unknown ability, source
\* not the active unit, source or target not found, mp missing or below the
\* cost) exactly one failure line is appended to the log and nothing else
\* changes: no hp, mp or status set, no turnOrder, activeTurnIndex or state.
FailSoftOnlyLogs ==
    last.op = "executeCommand" /\ failsSoft(last.pre, last.command) =>
        /\ last.post.battle.log = Append(last.pre.battle.log, failureLine(last.pre, last.command))
        /\ last.post.party = last.pre.party
        /\ last.post.battle = [last.pre.battle EXCEPT !.log = last.post.battle.log]
        /\ world = last.post

\* The active member has no mp field and casts an ability that costs mp at a
\* member of the party: one line, nothing paid, nothing healed.
FailSoftWitness ==
    /\ last.op = "executeCommand"
    /\ last.command = Command("c2", "c1", "sage_mend")
    /\ activeRefOf(last.pre.battle) = TurnRef("party", "c2")
    /\ ~IsNumber(sourceBefore.mp)
    /\ world.battle.log[Len(world.battle.log)] = "c2 failed to cast Mend."
    /\ world.party = last.pre.party

\* C28: when an accepted command fails soft inside the executor, the battle
\* stays in progress with the same unit active and awaits the next command:
\* the failure line is the one thing the handler leaves, the turn is not
\* advanced and no enemy turn is run.
FailedActionKeepsTheTurn ==
    last.op = "battleCommand" /\ last.verdict.ok /\ failsSoft(last.pre, last.command) =>
        /\ last.post.battle.state = "in_progress"
        /\ last.post.battle.turnOrder = last.pre.battle.turnOrder
        /\ last.post.battle.activeTurnIndex = last.pre.battle.activeTurnIndex
        /\ last.post.party = last.pre.party
        /\ last.post.battle.enemies = last.pre.battle.enemies
        /\ last.post.battle.log = Append(last.pre.battle.log, failureLine(last.pre, last.command))

(***************************************************************************)
(* Properties of the log of a resolution.                                  *)
(***************************************************************************)
isHeal(ability) == ability.power > 0 /\ ability.targetType \in {"ally_single", "party", "self"}

\* The amount of the last command: of the healing formula for a heal, of the
\* damage formula for any other ability with power, 0 for one without.
amountBefore ==
    LET mult == elementalMultiplier(lastAbility.element, targetElementBefore)
        physical == lastAbility.element = "NULL"
    IN  IF lastAbility.power <= 0 THEN 0
        ELSE IF isHeal(lastAbility)
        THEN atLeastOne(10 * lastAbility.power + 11 * numberOr0(sourceBefore.magic), mult)
        ELSE atLeastOne(10 * ((IF physical THEN numberOr0(sourceBefore.strength)
                               ELSE numberOr0(sourceBefore.magic)) + lastAbility.power)
                            - 6 * (IF physical THEN numberOr0(targetBefore.defense)
                                   ELSE numberOr0(targetBefore.spirit)), mult)

\* "<source> <verb> <ability name> on <target>[ +N HP | -N HP][ (status)]."
resolutionLine ==
    labelOf(last.pre, last.command.sourceId)
        \o (IF isHeal(lastAbility) THEN " cast " ELSE " used ")
        \o lastAbility.name \o " on " \o labelOf(last.pre, last.command.targetId)
        \o (IF amountBefore > 0
            THEN (IF isHeal(lastAbility) THEN " +" ELSE " -") \o ToString(amountBefore) \o " HP"
            ELSE "")
        \o (IF lastAbility.statusEffect # "" THEN " (" \o lastAbility.statusEffect \o ")" ELSE "")
        \o "."

\* C29: every resolution of executeCommand appends exactly one action line
\* to the log, followed by one "Victory!" or "Defeat." line when the state
\* changes and by nothing when it does not; the line has the verb "cast"
\* exactly when the ability is a heal (power > 0 and target type ally_single,
\* party or self) and "used" otherwise, and an HP delta exactly when the
\* amount is greater than 0, which it is exactly when the power is.
ResolutionLogsOneLine ==
    last.op = "executeCommand" /\ resolves(last.pre, last.command) =>
        /\ last.post.battle.log =
               Append(last.pre.battle.log, resolutionLine)
                   \o (IF last.post.battle.state = "victory" THEN <<"Victory!">>
                       ELSE IF last.post.battle.state = "defeat" THEN <<"Defeat.">>
                       ELSE <<>>)
        /\ amountBefore > 0 <=> lastAbility.power > 0

\* A heal is cast: one line with the verb "cast" and the hp gained.
ResolutionLineWitness ==
    /\ last.op = "executeCommand"
    /\ resolves(last.pre, last.command)
    /\ last.command = Command("c1", "c2", "sage_mend")
    /\ world.battle.state = "in_progress"
    /\ world.battle.log = Append(last.pre.battle.log, "Lysa cast Mend on Ally +23 HP.")

(***************************************************************************)
(* Properties of the schedule.                                             *)
(***************************************************************************)
\* The units of w that the reference names.
namedBy(w, ref) ==
    LET list == IF ref.kind = "party" THEN w.party.members ELSE w.battle.enemies
    IN  {i \in DOMAIN list : list[i].id = ref.id}

refIsAlive(w, ref) ==
    LET list == IF ref.kind = "party" THEN w.party.members ELSE w.battle.enemies
    IN  namedBy(w, ref) # {} /\ \A i \in namedBy(w, ref) : hasHp(list[i])

\* The last call has pruned the schedule: a command that executeCommand
\* resolved, or advanceTurn on a battle in progress.
hasPruned ==
    \/ last.op = "executeCommand" /\ resolves(last.pre, last.command)
    \/ last.op = "advanceTurn" /\ last.pre.battle.state = "in_progress"

\* w with the hp of member i at 0, as a save pushed between two calls leaves
\* the active member: a scheduled member that no call of the engine has
\* pruned.
struckDown(w, i) == [w EXCEPT !.party.members[i].stats.hp = 0]

onlyTheLiving(w) ==
    /\ \A k \in DOMAIN w.battle.turnOrder : refIsAlive(w, w.battle.turnOrder[k])
    /\ Len(w.battle.turnOrder) = 0 => w.battle.activeTurnIndex = 0

\* C30: after every resolved executeCommand and after every advanceTurn on a
\* battle in progress, turnOrder holds no reference to a combatant with
\* hp <= 0: it is the turnOrder from before the call without the references
\* to the combatants that are dead after it, in the same order; and when the
\* pruning empties turnOrder, activeTurnIndex is 0.  advanceTurn prunes
\* likewise a member whose hp was set to 0 outside the engine.
ScheduleHoldsOnlyTheLiving ==
    /\ hasPruned =>
           /\ onlyTheLiving(last.post)
           /\ last.post.battle.turnOrder =
                 SelectSeq(last.pre.battle.turnOrder, LAMBDA ref : refIsAlive(last.post, ref))
           /\ world = last.post
    /\ stored /\ battle.state = "in_progress" =>
           \A i \in DOMAIN party.members :
               /\ onlyTheLiving(advanceTurn(struckDown(world, i)))
               /\ \A k \in DOMAIN advanceTurn(struckDown(world, i)).battle.turnOrder :
                     advanceTurn(struckDown(world, i)).battle.turnOrder[k]
                         # TurnRef("party", party.members[i].id)

\* The one unit of the schedule strikes itself down: the schedule is empty
\* afterwards and activeTurnIndex is 0.
EmptiedScheduleWitness ==
    /\ last.op = "executeCommand"
    /\ resolves(last.pre, last.command)
    /\ Len(last.pre.battle.turnOrder) = 1
    /\ hasHp(last.pre.battle.enemies[1])
    /\ ~hasHp(world.battle.enemies[1])
    /\ world.battle.turnOrder = <<>>
    /\ world.battle.activeTurnIndex = 0

\* ---------------------------------------------------------------------
\* Properties of the session layer around a battle
\* ---------------------------------------------------------------------

engagedEnemyId == last.post.battle.enemies[1].id

endedByHandler ==
    /\ last.op \in {"battleEngage", "battleCommandMessage"}
    /\ last.verdict.ok
    /\ last.post.battle.state \in {"victory", "defeat"}

\* C22: when the state of a battle becomes victory or defeat, at the end of
\* the handler the battle is out of the store and of the side table, the
\* activeBattleId of the player is cleared, the party is back in the
\* overworld, and the engaged enemy of the world is unlocked (and removed on
\* victory); no battle in the store is ended, and a player who is in a
\* battle is in a stored battle in progress.
TerminalBattleIsCleanedUp ==
    /\ \A id \in DOMAIN battlesById : battlesById[id].state = "in_progress"
    /\ endedByHandler =>
           /\ last.post.battle.id \notin DOMAIN battlesById
           /\ last.post.battle.id \notin DOMAIN partyByBattleId
           /\ player.activeBattleId = Null
           /\ player.activeBattleEnemyId = Null
           /\ party.currentState = "overworld"
           /\ \A i \in DOMAIN objects :
                  objects[i].id = engagedEnemyId =>
                      objects[i].engagedBy = Null /\ last.post.battle.state = "defeat"
    /\ player.activeBattleId # Null =>
           /\ player.activeBattleId \in DOMAIN battlesById
           /\ party.currentState = "battle"

\* The enemy turns defeat the party: the battle is gone, the enemy is still
\* in the overworld and is unlocked.
TerminalCleanupWitness ==
    /\ endedByHandler
    /\ last.op = "battleCommandMessage"
    /\ last.command.abilityId # "flee"
    /\ last.post.battle.state = "defeat"
    /\ last.pre.battle.id \notin DOMAIN battlesById
    /\ \E i \in DOMAIN objects :
           objects[i].id = engagedEnemyId /\ objects[i].engagedBy = Null

\* C23: the store holds at most one battle for a party id, whatever engage,
\* command and close messages arrive.
OneBattlePerParty ==
    \A a \in DOMAIN battlesById : \A b \in DOMAIN battlesById :
        battlesById[a].partyId = battlesById[b].partyId => a = b

\* An engage message arrives for a player who is in a battle, for an enemy
\* of the overworld: it is ignored and the store keeps its one battle.
SecondEngageWitness ==
    /\ last.op = "battleEngage"
    /\ ~last.verdict.ok
    /\ player.activeBattleId # Null
    /\ \E i \in DOMAIN objects : objects[i].engagedBy = Null
    /\ Cardinality(DOMAIN battlesById) = 1

(***************************************************************************)
(* Properties of the passing of the turn.                                  *)
(***************************************************************************)
\* The distances d, counted cyclically from position k of the order, at
\* which a reference to a unit that is alive in w stands.
livingAhead(order, k, w) ==
    {d \in 1..Len(order) : refIsAlive(w, order[((k - 1 + d) % Len(order)) + 1])}

\* The first living unit after position k of the order, cyclically.
nextLivingAfter(order, k, w) ==
    IF livingAhead(order, k, w) = {} THEN NoRef
    ELSE order[((k - 1 + CHOOSE d \in livingAhead(order, k, w) :
                             \A e \in livingAhead(order, k, w) : d <= e) % Len(order)) + 1]

\* The position in turnOrder of the unit whose turn it is.
actorPosition(w) == (w.battle.activeTurnIndex % Len(w.battle.turnOrder)) + 1

\* After executeCommand and advanceTurn have taken w to after, the turn is
\* with the first living unit that follows the actor in the order of w.
turnPassed(w, after) ==
    after.battle.state = "in_progress" =>
        activeRefOf(after.battle) = nextLivingAfter(w.battle.turnOrder, actorPosition(w), after)

\* C31: after the active unit has acted and the turn has advanced, with the
\* battle still in progress, the active unit is the first living unit that
\* follows the actor cyclically in the turn order as it was before the
\* action, also when the action killed a unit.
TurnPassesToTheNextLiving ==
    /\ (last.op = "enemyTurn" /\ resolves(last.pre, last.command)) =>
           turnPassed(last.pre, last.post)
    /\ stored =>
           \A command \in PlayCommands :
               resolves(world, command) =>
                   turnPassed(world, advanceTurn(executeCommand(world, command)))

(***************************************************************************)
(* Properties of the resolution of references.                             *)
(***************************************************************************)
\* The unit the executor resolves for the id, as kind and position.
resolvedSource(w, command) == findUnitInBattle(w, command.sourceId)

\* C32: a turn reference is resolved by id together with kind: the unit the
\* executor resolves as the source of a command of the active unit is the
\* unit of the kind of the active reference, never a unit of the other list
\* that carries the same id; and every reference of turnOrder names an
\* existing unit of its kind.
ReferenceResolvesByKind ==
    /\ (last.op \in {"executeCommand", "enemyTurn"} /\ resolves(last.pre, last.command)) =>
           /\ resolvedSource(last.pre, last.command).kind = activeRefOf(last.pre.battle).kind
           /\ resolvedSource(last.pre, last.command) = getActiveUnit(last.pre)
    /\ stored => \A k \in DOMAIN battle.turnOrder : namedBy(world, battle.turnOrder[k]) # {}

(***************************************************************************)
(* Properties of the schedule over a battle.                               *)
(***************************************************************************)
\* a is b with some of its elements left out.
RECURSIVE isSubsequence(_, _)
isSubsequence(a, b) ==
    IF a = <<>> THEN TRUE
    ELSE IF b = <<>> THEN FALSE
    ELSE IF Head(a) = Head(b) THEN isSubsequence(Tail(a), Tail(b))
    ELSE isSubsequence(a, Tail(b))

\* The order the battle of w was created with, when the last call made it.
createdOrder == calculateInitialTurnOrder(last.pre.party.members, last.post.battle.enemies)

\* C33: throughout a battle turnOrder is a subsequence of the order computed
\* at creation: createBattle stores that order, and every later call on the
\* battle (executeCommand, advanceTurn, a pass of runEnemyTurns) leaves a
\* turnOrder that is a subsequence of the one it found, so that references
\* are only removed, never added, duplicated or reordered.
TurnOrderOnlyShrinks ==
    /\ [](last.op = "createBattle" => battle.turnOrder = createdOrder)
    /\ [](last.op \in {"executeCommand", "advanceTurn", "enemyTurn"} =>
             isSubsequence(last.post.battle.turnOrder, last.pre.battle.turnOrder))
    /\ [][stored => isSubsequence(world'.battle.turnOrder, world.battle.turnOrder)]_vars

\* A pass of runEnemyTurns strikes down the first of a schedule of three: the
\* two that are left stand in their old order.
ShrunkOrderWitness ==
    /\ last.op = "enemyTurn"
    /\ resolves(last.pre, last.command)
    /\ Len(last.pre.battle.turnOrder) = 3
    /\ world.battle.turnOrder = Tail(last.pre.battle.turnOrder)
    /\ world.battle.state = "in_progress"

\* The reference of kind to the unit is in the schedule of w.
scheduled(w, kind, unit) ==
    \E k \in DOMAIN w.battle.turnOrder : w.battle.turnOrder[k] = TurnRef(kind, unit.id)

everyLivingIsScheduled(w) ==
    /\ \A i \in DOMAIN w.party.members :
          hasHp(w.party.members[i]) => scheduled(w, "party", w.party.members[i])
    /\ \A i \in DOMAIN w.battle.enemies :
          hasHp(w.battle.enemies[i]) => scheduled(w, "enemy", w.battle.enemies[i])

\* C34: in a battle in progress, after each executed action, turnOrder holds
\* a reference to every combatant with hp > 0; a combatant that was left out
\* of the schedule at hp 0 does not come to hp > 0 while it is absent from
\* turnOrder.
EveryLivingUnitIsScheduled ==
    (/\ last.op \in {"executeCommand", "enemyTurn"}
     /\ resolves(last.pre, last.command)
     /\ last.post.battle.state = "in_progress") => everyLivingIsScheduled(last.post)

(***************************************************************************)
(* Properties of the state of a battle.                                    *)
(***************************************************************************)
\* C35: in every state of a stored battle, state in_progress implies that a
\* party member has hp > 0 and that an enemy has hp > 0, right after
\* createBattle as well as after every executeCommand and advanceTurn.
InProgressHasBothSidesAlive ==
    stored /\ battle.state = "in_progress" =>
        someAlive(party.members) /\ someAlive(battle.enemies)

(***************************************************************************)
(* Properties of the lock of an enemy of the overworld.                    *)
(***************************************************************************)
\* The players that are in a battle with the enemy of the overworld.
engagedWith(enemyId) ==
    {pid \in PlayerIds : /\ player[pid].activeBattleId \in DOMAIN battlesById
                         /\ player[pid].activeBattleEnemyId = enemyId}

\* C36: the lock of an enemy is exclusive: whatever engage messages the
\* connected players send, an enemy of the overworld is engaged in at most
\* one stored battle, and as long as that battle is stored the engagedBy of
\* the enemy names the player of the battle.
EnemyLockIsExclusive ==
    \A i \in DOMAIN objects :
        /\ \A p \in engagedWith(objects[i].id) : \A q \in engagedWith(objects[i].id) : p = q
        /\ \A p \in engagedWith(objects[i].id) : objects[i].engagedBy = p

\* C37: when a player disconnects during a battle, the battle is removed
\* from the store and the lock of the engaged enemy is released: after the
\* close handler no enemy of the overworld has an engagedBy that names the
\* player who is gone.
LockIsReleasedOnClose ==
    /\ last.op = "close" =>
           /\ last.pre.battle.id \notin DOMAIN battlesById
           /\ \A i \in DOMAIN objects : objects[i].engagedBy # last.playerId
    /\ ~connected => \A i \in DOMAIN objects : objects[i].engagedBy = Null

(***************************************************************************)
(* Properties of the session of a player in a battle.                      *)
(***************************************************************************)
\* The validator accepts a command of the player for the battle.
someCommandIsAccepted ==
    \E command \in ServerCommands :
        validateBattleCommand(world, player.id, normalize(command)).ok

\* C38: between two message handlers the activeBattleId of a player is set
\* only if a battle with that id is stored and in progress and a living
\* member of the party of the player can act in it: the player is never
\* attached to a battle that rejects all of their commands.
AttachedBattleCanBeDriven ==
    (connected /\ player.activeBattleId # Null) =>
        /\ player.activeBattleId \in DOMAIN battlesById
        /\ battle.state = "in_progress"
        /\ someAlive(party.members)
        /\ someCommandIsAccepted

(***************************************************************************)
(* Properties of the enemies of a battle.                                  *)
(***************************************************************************)
\* C39: a battle owns its enemies: no damage, healing or status effect
\* applied to battle.enemies changes the enemy objects that were passed to
\* createBattle, their stats and statusEffects included.
TemplatesAreLeftAlone == [][templates' = templates]_vars

(***************************************************************************)
(* Properties of the party of a player in a battle.                        *)
(***************************************************************************)
maxHpOf(list) == [i \in DOMAIN list |-> list[i].stats.maxHp]

\* C40: while a player has a battle in progress, the hp and the maxHp of the
\* members of the party change only through the actions the executor
\* resolves: a message that is no battle command, a save push in particular,
\* arriving between two battle commands leaves them as they are.
PartyHpChangesOnlyInBattleCommands ==
    (/\ last.op \in {"savePush", "battleEngage"}
     /\ last.pre.battle.id = player.activeBattleId
     /\ last.pre.battle.state = "in_progress") =>
        /\ hpOf(party.members) = hpOf(last.pre.party.members)
        /\ maxHpOf(party.members) = maxHpOf(last.pre.party.members)

====
